---------------------------- MODULE Spec2Model ----------------------------
(***************************************************************************)
(* A model of the agent-wallet keystore (TypeScript SDK):                  *)
(*   keystore_proto.ts   the protobuf wire codec for map<string,string>    *)
(*   keystore_crypto.ts  scrypt + AES-256-GCM envelope                     *)
(*   keystore.ts         the Keystore class (read/get/set/.../write)       *)
(*                                                                         *)
(* Strings are sequences of Unicode scalar values, buffers are sequences   *)
(* of bytes (0..255), offsets are 0-based as in the source.  A JavaScript  *)
(* object used as a map is the sequence of its own properties <<key,       *)
(* value>> in property order.                                              *)
(***************************************************************************)
EXTENDS Integers, Sequences, FiniteSets, TLC

VARIABLES
  cData,    \* codec harness: the map handed to encodeKeystoreData
  cBuf,     \* codec harness: the buffer under operation
  cCut,     \* codec harness: number of bytes removed from the end of cBuf
  cIns,     \* codec harness: what was put between the entries of cBuf
  cRes,     \* codec harness: result of decodeKeystoreData(cBuf)
  cStep,    \* codec harness: "input", "encoded", "truncated", "inserted",
            \* "decoded"
  vVal,     \* varint harness: the uint32 handed to encodeVarint
  vBuf,     \* varint harness: the buffer under operation
  vHow,     \* varint harness: what was done to vBuf after encodeVarint
  vRes,     \* varint harness: result of decodeVarint(vBuf, 0)
  vStep,    \* varint harness: "input", "encoded", "changed", "decoded"
  dec,      \* decodeKeystoreData run one loop iteration at a time: its buffer,
            \* its locals and its position
  xPlain,   \* crypto harness: the plaintext handed to encrypt
  xPw,      \* crypto harness: the password handed to encrypt
  xPayload, \* crypto harness: the EncryptedPayload under operation
  xTamper,  \* crypto harness: what was altered in xPayload after encrypt
  xPw2,     \* crypto harness: the password handed to decrypt
  xRes,     \* crypto harness: result of decrypt(xPayload, xPw2)
  xCalls,   \* crypto harness: history of the calls encrypt(xPlain, xPw): what
            \* crypto.randomBytes returned to each and the payload it made
  xStep,    \* crypto harness: "input", "encrypted", "deriving", "decrypted"
  fs,        \* the content of the keystore path and of its '.tmp' sibling
  dirExists, \* whether the directory of the keystore path exists
  ks,        \* the Keystore instances of the process
  tasks,     \* the calls of Keystore methods in flight or completed
  running,   \* the call inside a synchronous run of file operations, or 0
  ops,       \* number of calls made so far
  held,      \* the map the caller last got from read() or getAll()
  heldOf,    \* the instance whose this.data `held` is, 0 for a copy, -1 none
  fileBy,    \* history: which write produced the content of the keystore path
  disk,      \* two processes: the directory entries and inodes they share
  procs      \* two processes: the write() of each of them

codecVars == <<cData, cBuf, cCut, cIns, cRes, cStep,
               vVal, vBuf, vHow, vRes, vStep, dec>>
cryptoVars == <<xPlain, xPw, xPayload, xTamper, xPw2, xRes, xCalls, xStep>>
storeVars == <<fs, dirExists, ks, tasks, running, ops, held, heldOf, fileBy>>
procVars == <<disk, procs>>
vars == <<cData, cBuf, cCut, cIns, cRes, cStep,
          vVal, vBuf, vHow, vRes, vStep, dec,
          xPlain, xPw, xPayload, xTamper, xPw2, xRes, xCalls, xStep,
          fs, dirExists, ks, tasks, running, ops, held, heldOf, fileBy,
          disk, procs>>

-----------------------------------------------------------------------------
(* Bounds of the model *)

\* largest number of entries of a map fed to the codec harness
MaxEntries == 2

\* largest number of bytes of a buffer fed to decodeVarint
MaxVarintBytes == 6

\* number of distinct values crypto.randomBytes returns in the model
MaxRandom == 2

-----------------------------------------------------------------------------
(* Strings *)

\* the value `undefined`
Undef == <<-1>>

STR_EMPTY == <<>>
STR_a == <<97>>
STR_b == <<98>>
STR_1 == <<49>>
STR_2 == <<50>>
\* "é" (U+00E9, two UTF-8 bytes)
STR_eacute == <<233>>
\* "__proto__"
STR_PROTO == <<95, 95, 112, 114, 111, 116, 111, 95, 95>>
\* "constructor"
STR_constructor == <<99, 111, 110, 115, 116, 114, 117, 99, 116, 111, 114>>

RECURSIVE Concat(_)
\* Buffer.concat(list)
Concat(list) ==
  IF list = <<>> THEN <<>> ELSE Head(list) \o Concat(Tail(list))

\* UTF-8 bytes of one scalar value
Utf8OfCodePoint(c) ==
  IF c < 128 THEN <<c>>
  ELSE IF c < 2048 THEN <<192 + (c \div 64), 128 + (c % 64)>>
  ELSE IF c < 65536
    THEN <<224 + (c \div 4096), 128 + ((c \div 64) % 64), 128 + (c % 64)>>
  ELSE <<240 + (c \div 262144), 128 + ((c \div 4096) % 64),
         128 + ((c \div 64) % 64), 128 + (c % 64)>>

RECURSIVE Utf8Encode(_)
\* Buffer.from(str, 'utf8')
Utf8Encode(str) ==
  IF str = <<>> THEN <<>>
  ELSE Utf8OfCodePoint(Head(str)) \o Utf8Encode(Tail(str))

IsCont(b) == b >= 128 /\ b <= 191

\* One step of the UTF-8 decoder at 1-based index i of bytes: the scalar value
\* produced and the number of bytes consumed; ill-formed input yields U+FFFD
\* for each maximal ill-formed subpart.
Utf8Step(bytes, i) ==
  LET n == Len(bytes)
      b0 == bytes[i]
      has(j) == i + j <= n
      at(j) == bytes[i + j]
      bad(k) == [cp |-> 65533, used |-> k]
      lo2 == IF b0 = 224 THEN 160 ELSE IF b0 = 240 THEN 144 ELSE 128
      hi2 == IF b0 = 237 THEN 159 ELSE IF b0 = 244 THEN 143 ELSE 191
      ok2 == has(1) /\ at(1) >= lo2 /\ at(1) <= hi2
  IN
  IF b0 < 128 THEN [cp |-> b0, used |-> 1]
  ELSE IF b0 >= 194 /\ b0 <= 223 THEN
    IF has(1) /\ IsCont(at(1))
      THEN [cp |-> (b0 - 192) * 64 + (at(1) - 128), used |-> 2]
      ELSE bad(1)
  ELSE IF b0 >= 224 /\ b0 <= 239 THEN
    IF ~ok2 THEN bad(1)
    ELSE IF ~(has(2) /\ IsCont(at(2))) THEN bad(2)
    ELSE [cp |-> (b0 - 224) * 4096 + (at(1) - 128) * 64 + (at(2) - 128),
          used |-> 3]
  ELSE IF b0 >= 240 /\ b0 <= 244 THEN
    IF ~ok2 THEN bad(1)
    ELSE IF ~(has(2) /\ IsCont(at(2))) THEN bad(2)
    ELSE IF ~(has(3) /\ IsCont(at(3))) THEN bad(3)
    ELSE [cp |-> (b0 - 240) * 262144 + (at(1) - 128) * 4096
                 + (at(2) - 128) * 64 + (at(3) - 128),
          used |-> 4]
  ELSE bad(1)

RECURSIVE Utf8DecodeFrom(_, _)
Utf8DecodeFrom(bytes, i) ==
  IF i > Len(bytes) THEN <<>>
  ELSE LET s == Utf8Step(bytes, i)
       IN <<s.cp>> \o Utf8DecodeFrom(bytes, i + s.used)

\* buf.toString('utf8')
Utf8Decode(bytes) == Utf8DecodeFrom(bytes, 1)

\* buf.subarray(from, to) with 0-based offsets, to exclusive
Subarray(buf, from, to) == SubSeq(buf, from + 1, to)

-----------------------------------------------------------------------------
(* JavaScript objects used as string maps *)

IsDigit(c) == c >= 48 /\ c <= 57

\* a canonical array index ("0", "7", "42"): such keys are enumerated first,
\* in ascending numeric order
IsArrayIndex(k) ==
  /\ k # <<>>
  /\ Len(k) <= 9
  /\ \A i \in 1..Len(k) : IsDigit(k[i])
  /\ (Len(k) > 1 => k[1] # 48)

RECURSIVE IndexValue(_)
IndexValue(k) ==
  IF k = <<>> THEN 0
  ELSE IndexValue(SubSeq(k, 1, Len(k) - 1)) * 10 + (k[Len(k)] - 48)

HasOwn(obj, k) == \E i \in 1..Len(obj) : obj[i][1] = k

OwnIndex(obj, k) == CHOOSE i \in 1..Len(obj) : obj[i][1] = k

\* where a new own property k is placed in the property order
InsertAt(obj, k) ==
  IF IsArrayIndex(k)
    THEN Cardinality({i \in 1..Len(obj) :
                        /\ IsArrayIndex(obj[i][1])
                        /\ IndexValue(obj[i][1]) < IndexValue(k)}) + 1
    ELSE Len(obj) + 1

\* CreateDataProperty: what JSON.parse and object spread do for each member
ObjDefine(obj, k, v) ==
  IF HasOwn(obj, k)
    THEN [obj EXCEPT ![OwnIndex(obj, k)] = <<k, v>>]
    ELSE LET p == InsertAt(obj, k)
         IN SubSeq(obj, 1, p - 1) \o <<<<k, v>>>> \o SubSeq(obj, p, Len(obj))

\* obj[k] = v on an ordinary object whose prototype is Object.prototype, v a
\* string: an own property is updated; otherwise the assignment walks the
\* prototype chain, where "__proto__" is an accessor whose setter ignores
\* every value that is neither an object nor null.
ObjSet(obj, k, v) ==
  IF HasOwn(obj, k) THEN ObjDefine(obj, k, v)
  ELSE IF k = STR_PROTO THEN obj
  ELSE ObjDefine(obj, k, v)

RECURSIVE ObjFromPairs(_, _)
\* the object literal / JSON.parse result with the given members, in order
ObjFromPairs(obj, pairs) ==
  IF pairs = <<>> THEN obj
  ELSE ObjFromPairs(ObjDefine(obj, Head(pairs)[1], Head(pairs)[2]), Tail(pairs))

\* Object.entries(obj)
ObjEntries(obj) == obj

\* Object.keys(obj)
ObjKeys(obj) == [i \in 1..Len(obj) |-> obj[i][1]]

\* {...obj}
ObjSpread(obj) == obj

\* the map an object denotes: its set of own <<key, value>> pairs
MapOf(obj) == {obj[i] : i \in 1..Len(obj)}

-----------------------------------------------------------------------------
(* keystore_proto.ts *)

WIRE_TYPE_VARINT == 0
WIRE_TYPE_64BIT == 1
WIRE_TYPE_LENGTH_DELIMITED == 2
WIRE_TYPE_32BIT == 5

(* A uint32 is held in two limbs, [hi |-> bits 28..31, lo |-> bits 0..27], *)
(* so that every value of [0, 2^32) is represented exactly.                *)
TwoTo28 == 268435456
TwoTo25 == 33554432
TwoTo21 == 2097152

RECURSIVE Pow2(_)
Pow2(n) == IF n = 0 THEN 1 ELSE 2 * Pow2(n - 1)

\* x >>> 0 for a JavaScript number 0 <= x < 2^31
ToUint32(x) == [hi |-> x \div TwoTo28, lo |-> x % TwoTo28]

\* u >>> 3
U32Shr3(u) == u.hi * TwoTo25 + (u.lo \div 8)

\* u & 0x07
U32And7(u) == u.lo % 8

\* offset + u > limit, for offset and limit below 2^28
Exceeds(offset, u, limit) == u.hi > 0 \/ offset + u.lo > limit

DecodeError(msg) == [ok |-> FALSE, err |-> "DecodeError", msg |-> msg]

\* no result yet
NoResult == [ok |-> FALSE, err |-> "none", msg |-> ""]

RECURSIVE EncodeVarintLoop(_)
\* the loop of encodeVarint once v < 2^28
EncodeVarintLoop(v) ==
  IF v >= 128 THEN <<(v % 128) + 128>> \o EncodeVarintLoop(v \div 128)
  ELSE <<v>>

\* encodeVarint on the uint32 v = value >>> 0
EncodeVarintU32(v) ==
  IF v.hi > 0 \/ v.lo >= 128
    THEN <<(v.lo % 128) + 128>>
           \o EncodeVarintLoop((v.lo \div 128) + v.hi * TwoTo21)
    ELSE <<v.lo>>

encodeVarint(value) == EncodeVarintU32(ToUint32(value))

\* result | ((b & 0x7f) << shift): the 7-bit groups occupy disjoint bits, so
\* `|` adds; at shift 28 `<<` keeps only the low four bits of the group.
\* mutant: the fifth byte is shifted as a signed 32-bit value and the sign bit
\* is dropped instead of read as bit 31 (no `>>> 0`)
OrShifted_NoTopBit(result, b, shift) ==
  IF shift < 28
    THEN [hi |-> result.hi, lo |-> result.lo + (b % 128) * Pow2(shift)]
    ELSE [hi |-> b % 8, lo |-> result.lo]

OrShifted(result, b, shift) ==
  IF shift < 28
    THEN [hi |-> result.hi, lo |-> result.lo + (b % 128) * Pow2(shift)]
    ELSE [hi |-> b % 16, lo |-> result.lo]

RECURSIVE DecodeVarintLoop(_, _, _, _, _)
DecodeVarintLoop(buf, pos, result, shift, bytesRead) ==
  IF pos < Len(buf) THEN
    IF bytesRead >= 5 THEN DecodeError("Varint too long (> 5 bytes for uint32)")
    ELSE LET b == buf[pos + 1]
             r == OrShifted(result, b, shift)
         IN IF b < 128
              THEN [ok |-> TRUE, value |-> r, nextOffset |-> pos + 1]
              ELSE DecodeVarintLoop(buf, pos + 1, r, shift + 7, bytesRead + 1)
  ELSE DecodeError("Unexpected end of buffer while decoding varint")

\* mutant: the end of the buffer ends the varint instead of throwing
decodeVarint_EofEndsVarint(buf, offset) ==
  LET d == DecodeVarintLoop(buf, offset, [hi |-> 0, lo |-> 0], 0, 0)
  IN IF d.ok THEN d
     ELSE [ok |-> TRUE, value |-> [hi |-> 0, lo |-> 0], nextOffset |-> Len(buf)]

decodeVarint(buf, offset) ==
  DecodeVarintLoop(buf, offset, [hi |-> 0, lo |-> 0], 0, 0)

\* mutant: a 64-bit field is skipped as if it were four bytes long
skipField_64As32(buf, offset, wireType) ==
  IF wireType = WIRE_TYPE_VARINT THEN
    LET d == decodeVarint(buf, offset)
    IN IF d.ok THEN [ok |-> TRUE, offset |-> d.nextOffset] ELSE d
  ELSE IF wireType = WIRE_TYPE_LENGTH_DELIMITED THEN
    LET d == decodeVarint(buf, offset)
    IN IF ~d.ok THEN d
       ELSE IF Exceeds(d.nextOffset, d.value, Len(buf))
         THEN DecodeError("Length-delimited field exceeds buffer")
         ELSE [ok |-> TRUE, offset |-> d.nextOffset + d.value.lo]
  ELSE IF wireType \in {WIRE_TYPE_64BIT, WIRE_TYPE_32BIT} THEN
    IF offset + 4 > Len(buf)
      THEN DecodeError("Unexpected end of buffer skipping 32-bit field")
      ELSE [ok |-> TRUE, offset |-> offset + 4]
  ELSE DecodeError("Unknown wire type")

\* mutant: a varint field is skipped backwards, to the byte of its tag
skipField_Backwards(buf, offset, wireType) ==
  IF wireType = WIRE_TYPE_VARINT THEN
    LET d == decodeVarint(buf, offset)
    IN IF d.ok THEN [ok |-> TRUE, offset |-> offset - 1] ELSE d
  ELSE IF wireType = WIRE_TYPE_64BIT THEN
    IF offset + 8 > Len(buf)
      THEN DecodeError("Unexpected end of buffer skipping 64-bit field")
      ELSE [ok |-> TRUE, offset |-> offset + 8]
  ELSE IF wireType = WIRE_TYPE_LENGTH_DELIMITED THEN
    LET d == decodeVarint(buf, offset)
    IN IF ~d.ok THEN d
       ELSE IF Exceeds(d.nextOffset, d.value, Len(buf))
         THEN DecodeError("Length-delimited field exceeds buffer")
         ELSE [ok |-> TRUE, offset |-> d.nextOffset + d.value.lo]
  ELSE IF wireType = WIRE_TYPE_32BIT THEN
    IF offset + 4 > Len(buf)
      THEN DecodeError("Unexpected end of buffer skipping 32-bit field")
      ELSE [ok |-> TRUE, offset |-> offset + 4]
  ELSE DecodeError("Unknown wire type")

\* returns [ok, offset] or a DecodeError
skipField(buf, offset, wireType) ==
  IF wireType = WIRE_TYPE_VARINT THEN
    LET d == decodeVarint(buf, offset)
    IN IF d.ok THEN [ok |-> TRUE, offset |-> d.nextOffset] ELSE d
  ELSE IF wireType = WIRE_TYPE_64BIT THEN
    IF offset + 8 > Len(buf)
      THEN DecodeError("Unexpected end of buffer skipping 64-bit field")
      ELSE [ok |-> TRUE, offset |-> offset + 8]
  ELSE IF wireType = WIRE_TYPE_LENGTH_DELIMITED THEN
    LET d == decodeVarint(buf, offset)
    IN IF ~d.ok THEN d
       ELSE IF Exceeds(d.nextOffset, d.value, Len(buf))
         THEN DecodeError("Length-delimited field exceeds buffer")
         ELSE [ok |-> TRUE, offset |-> d.nextOffset + d.value.lo]
  ELSE IF wireType = WIRE_TYPE_32BIT THEN
    IF offset + 4 > Len(buf)
      THEN DecodeError("Unexpected end of buffer skipping 32-bit field")
      ELSE [ok |-> TRUE, offset |-> offset + 4]
  ELSE DecodeError("Unknown wire type")

\* mutant: the length prefix counts characters instead of UTF-8 bytes
encodeStringField_CharCount(fieldNumber, value) ==
  LET tag == encodeVarint(fieldNumber * 8 + WIRE_TYPE_LENGTH_DELIMITED)
      bytes == Utf8Encode(value)
      len == encodeVarint(Len(value))
  IN Concat(<<tag, len, bytes>>)

encodeStringField(fieldNumber, value) ==
  LET tag == encodeVarint(fieldNumber * 8 + WIRE_TYPE_LENGTH_DELIMITED)
      bytes == Utf8Encode(value)
      len == encodeVarint(Len(bytes))
  IN Concat(<<tag, len, bytes>>)

\* the chunks pushed for one entry of Object.entries(data)
EncodeEntry(key, value) ==
  LET entryBuf == Concat(<<encodeStringField(1, key),
                           encodeStringField(2, value)>>)
      tag == encodeVarint(1 * 8 + WIRE_TYPE_LENGTH_DELIMITED)
      len == encodeVarint(Len(entryBuf))
  IN Concat(<<tag, len, entryBuf>>)

RECURSIVE EncodeEntries(_)
EncodeEntries(entries) ==
  IF entries = <<>> THEN <<>>
  ELSE EncodeEntry(Head(entries)[1], Head(entries)[2])
         \o EncodeEntries(Tail(entries))

encodeKeystoreData(data) == EncodeEntries(ObjEntries(data))

RECURSIVE DecodeInner(_, _, _, _, _)
\* the loop `while (offset < end)` over one sub-message; returns
\* [ok, offset, key, value] or a DecodeError
DecodeInner(buf, offset, end, key, value) ==
  IF offset < end THEN
    LET t == decodeVarint(buf, offset)
    IN IF ~t.ok THEN t
       ELSE
         LET innerField == U32Shr3(t.value)
             innerWire == U32And7(t.value)
         IN IF innerWire # WIRE_TYPE_LENGTH_DELIMITED THEN
              LET s == skipField(buf, t.nextOffset, innerWire)
              IN IF ~s.ok THEN s
                 ELSE DecodeInner(buf, s.offset, end, key, value)
            ELSE
              LET l == decodeVarint(buf, t.nextOffset)
              IN IF ~l.ok THEN l
                 ELSE IF Exceeds(l.nextOffset, l.value, end)
                   THEN DecodeError("String length exceeds sub-message boundary")
                 ELSE
                   LET str == Utf8Decode(Subarray(buf, l.nextOffset,
                                                  l.nextOffset + l.value.lo))
                       off == l.nextOffset + l.value.lo
                   IN DecodeInner(buf, off, end,
                                  IF innerField = 1 THEN str ELSE key,
                                  IF innerField = 1 THEN value
                                  ELSE IF innerField = 2 THEN str ELSE value)
  ELSE [ok |-> TRUE, offset |-> offset, key |-> key, value |-> value]

RECURSIVE DecodeOuter(_, _, _)
\* the loop `while (offset < buf.length)`; returns [ok, value] or a DecodeError
DecodeOuter(buf, offset, result) ==
  IF offset < Len(buf) THEN
    LET t == decodeVarint(buf, offset)
    IN IF ~t.ok THEN t
       ELSE
         LET fieldNumber == U32Shr3(t.value)
             wireType == U32And7(t.value)
         IN IF fieldNumber # 1 \/ wireType # WIRE_TYPE_LENGTH_DELIMITED THEN
              LET s == skipField(buf, t.nextOffset, wireType)
              IN IF ~s.ok THEN s ELSE DecodeOuter(buf, s.offset, result)
            ELSE
              LET m == decodeVarint(buf, t.nextOffset)
              IN IF ~m.ok THEN m
                 ELSE IF Exceeds(m.nextOffset, m.value, Len(buf))
                   THEN DecodeError("Sub-message length exceeds buffer")
                 ELSE
                   LET e == DecodeInner(buf, m.nextOffset,
                                        m.nextOffset + m.value.lo, Undef, Undef)
                   IN IF ~e.ok THEN e
                      ELSE DecodeOuter(buf, e.offset,
                             IF e.key # Undef /\ e.value # Undef
                               THEN ObjSet(result, e.key, e.value)
                               ELSE result)
  ELSE [ok |-> TRUE, value |-> result]

decodeKeystoreData(buf) == DecodeOuter(buf, 0, <<>>)

-----------------------------------------------------------------------------
(* Texts, JSON values and abstract byte strings                            *)
(*                                                                         *)
(* Every record kind below has one fixed set of fields; a field that does  *)
(* not apply holds 0, "" or <<>>.                                          *)
(*                                                                         *)
(* Text: a string or a file's bytes.                                       *)
(*   tk = "raw"       seq holds the code points (string) or bytes (file)   *)
(*   tk = "json"      the text JSON.stringify(json) of a JSON object       *)
(*   tk = "jsonpart"  a proper, nonempty prefix of that text               *)
(* JSON object:                                                            *)
(*   jt = "map"  an object all of whose members are strings (m)            *)
(*   jt = "env"  an object with members version (number) and salt, iv,     *)
(*               tag, data (strings)                                       *)
(* Bytes whose content the model does not spell out:                       *)
(*   bk = "rnd"  output number id of crypto.randomBytes(len)               *)
(*   bk = "key"  scrypt(pw, salt), len = KEY_LEN                           *)
(*   bk = "ct"   AES-256-GCM ciphertext of pt under key and iv             *)
(*   bk = "tag"  the GCM authentication tag of ct under key and iv         *)
(*   mod > 0     the bytes were altered afterwards (variant number mod)    *)
(***************************************************************************)

RawText(seq) == [tk |-> "raw", seq |-> seq, json |-> <<>>]
JsonText(j) == [tk |-> "json", seq |-> <<>>, json |-> j]
JsonPartText(j) == [tk |-> "jsonpart", seq |-> <<>>, json |-> j]

JsonMap(obj) == [jt |-> "map", m |-> obj, version |-> 0, salt |-> <<>>,
                 iv |-> <<>>, tag |-> <<>>, data |-> <<>>]
JsonEnv(version, salt, iv, tag, data) ==
  [jt |-> "env", m |-> <<>>, version |-> version, salt |-> salt, iv |-> iv,
   tag |-> tag, data |-> data]

Bytes(bk, id, len, pw, salt, key, iv, pt, ct, mod) ==
  [bk |-> bk, id |-> id, len |-> len, pw |-> pw, salt |-> salt, key |-> key,
   iv |-> iv, pt |-> pt, ct |-> ct, mod |-> mod]

RandomBytes(id, len) == Bytes("rnd", id, len, <<>>, <<>>, <<>>, <<>>, <<>>, <<>>, 0)
EmptyBytes == RandomBytes(0, 0)

\* buf.toString('hex') and buf.toString('base64') of abstract bytes
ToHex(b) == [enc |-> "hex", bytes |-> b]
ToBase64(b) == [enc |-> "base64", bytes |-> b]

\* Buffer.from(s, 'hex'): a text that is not hex decodes to the empty buffer
FromHex(s) == IF s.enc = "hex" THEN s.bytes ELSE EmptyBytes

\* the bytes `decipher.update(s, 'base64', ...)` feeds to the cipher
FromBase64(s) == IF s.enc = "base64" THEN s.bytes ELSE EmptyBytes

\* the UTF-8 bytes of a string
TextToUtf8(text) ==
  IF text.tk = "raw" THEN RawText(Utf8Encode(text.seq)) ELSE text

\* the string decoded from UTF-8 bytes
TextFromUtf8(bytes) ==
  IF bytes.tk = "raw" THEN RawText(Utf8Decode(bytes.seq)) ELSE bytes

-----------------------------------------------------------------------------
(* Base64 of concrete bytes *)

Base64Char(n) ==
  IF n < 26 THEN 65 + n
  ELSE IF n < 52 THEN 97 + (n - 26)
  ELSE IF n < 62 THEN 48 + (n - 52)
  ELSE IF n = 62 THEN 43 ELSE 47

\* the 6-bit value of a base64 character, -1 for any other character
Base64Value(c) ==
  IF c >= 65 /\ c <= 90 THEN c - 65
  ELSE IF c >= 97 /\ c <= 122 THEN c - 97 + 26
  ELSE IF c >= 48 /\ c <= 57 THEN c - 48 + 52
  ELSE IF c = 43 \/ c = 45 THEN 62
  ELSE IF c = 47 \/ c = 95 THEN 63
  ELSE -1

RECURSIVE Base64Encode(_)
\* buf.toString('base64')
Base64Encode(b) ==
  IF Len(b) = 0 THEN <<>>
  ELSE IF Len(b) = 1 THEN
    <<Base64Char(b[1] \div 4), Base64Char((b[1] % 4) * 16), 61, 61>>
  ELSE IF Len(b) = 2 THEN
    <<Base64Char(b[1] \div 4), Base64Char((b[1] % 4) * 16 + (b[2] \div 16)),
      Base64Char((b[2] % 16) * 4), 61>>
  ELSE
    <<Base64Char(b[1] \div 4), Base64Char((b[1] % 4) * 16 + (b[2] \div 16)),
      Base64Char((b[2] % 16) * 4 + (b[3] \div 64)), Base64Char(b[3] % 64)>>
      \o Base64Encode(SubSeq(b, 4, Len(b)))

RECURSIVE Base64Sextets(_)
\* the 6-bit values of a base64 text up to its first '=': characters outside
\* the alphabet are skipped
Base64Sextets(str) ==
  IF str = <<>> \/ Head(str) = 61 THEN <<>>
  ELSE IF Base64Value(Head(str)) < 0 THEN Base64Sextets(Tail(str))
  ELSE <<Base64Value(Head(str))>> \o Base64Sextets(Tail(str))

RECURSIVE Base64Pack(_)
Base64Pack(x) ==
  IF Len(x) < 2 THEN <<>>
  ELSE IF Len(x) = 2 THEN <<x[1] * 4 + (x[2] \div 16)>>
  ELSE IF Len(x) = 3 THEN
    <<x[1] * 4 + (x[2] \div 16), (x[2] % 16) * 16 + (x[3] \div 4)>>
  ELSE
    <<x[1] * 4 + (x[2] \div 16), (x[2] % 16) * 16 + (x[3] \div 4),
      (x[3] % 4) * 64 + x[4]>> \o Base64Pack(SubSeq(x, 5, Len(x)))

\* Buffer.from(str, 'base64')
Base64Decode(str) == Base64Pack(Base64Sextets(str))

-----------------------------------------------------------------------------
(* keystore_crypto.ts *)

KEY_LEN == 32
SALT_LEN == 16
IV_LEN == 12
TAG_LEN == 16

FormatError(msg) == [ok |-> FALSE, err |-> "FormatError", msg |-> msg]
AuthenticationError ==
  [ok |-> FALSE, err |-> "AuthenticationError",
   msg |-> "Unsupported state or unable to authenticate data"]

\* crypto.scrypt(password, salt, KEY_LEN, ...): one key per (password, salt)
deriveKey(password, salt) ==
  Bytes("key", 0, KEY_LEN, password, salt, <<>>, <<>>, <<>>, <<>>, 0)

\* cipher.update(pt) ++ cipher.final()
GcmCiphertext(key, iv, pt) ==
  Bytes("ct", 0, Len(pt.seq), <<>>, <<>>, key, iv, pt, <<>>, 0)

\* cipher.getAuthTag()
GcmTag(key, iv, ct) ==
  Bytes("tag", 0, TAG_LEN, <<>>, <<>>, key, iv, <<>>, ct, 0)

\* what AES-CTR under (key, iv) turns ct into: the plaintext when ct was made
\* under that key and iv and not altered, other bytes otherwise
GcmPlaintext(key, iv, ct) ==
  IF ct.bk = "ct" /\ ct.mod = 0 /\ ct.key = key /\ ct.iv = iv
    THEN ct.pt
    ELSE RawText(<<0>>)

\* decipher.update(ct) ++ decipher.final(): final() throws unless the tag set
\* with setAuthTag is the tag of ct under (key, iv)
GcmOpen(key, iv, ct, tag) ==
  IF tag = GcmTag(key, iv, ct)
    THEN [ok |-> TRUE, value |-> GcmPlaintext(key, iv, ct)]
    ELSE AuthenticationError

\* mutant: the tag is stored as base64 text, not hex
encrypt_TagAsBase64(plaintext, password, saltId, ivId) ==
  LET salt == RandomBytes(saltId, SALT_LEN)
      iv == RandomBytes(ivId, IV_LEN)
      key == deriveKey(password, salt)
      enc == GcmCiphertext(key, iv, TextToUtf8(plaintext))
      tag == GcmTag(key, iv, enc)
  IN JsonEnv(1, ToHex(salt), ToHex(iv), ToBase64(tag), ToBase64(enc))

\* mutant: the iv is a constant of the module, not a fresh random value
encrypt_ConstantIv(plaintext, password, saltId, ivId) ==
  LET salt == RandomBytes(saltId, SALT_LEN)
      iv == RandomBytes(1, IV_LEN)
      key == deriveKey(password, salt)
      enc == GcmCiphertext(key, iv, TextToUtf8(plaintext))
      tag == GcmTag(key, iv, enc)
  IN JsonEnv(1, ToHex(salt), ToHex(iv), ToHex(tag), ToBase64(enc))

\* encrypt(plaintext, password), with the two outputs of crypto.randomBytes
encrypt(plaintext, password, saltId, ivId) ==
  LET salt == RandomBytes(saltId, SALT_LEN)
      iv == RandomBytes(ivId, IV_LEN)
      key == deriveKey(password, salt)
      enc == GcmCiphertext(key, iv, TextToUtf8(plaintext))
      tag == GcmTag(key, iv, enc)
  IN JsonEnv(1, ToHex(salt), ToHex(iv), ToHex(tag), ToBase64(enc))

\* mutant: the tag is never verified (no setAuthTag / final)
decrypt_NoTagCheck(payload, password) ==
  LET salt == FromHex(payload.salt)
      iv == FromHex(payload.iv)
      tag == FromHex(payload.tag)
  IN IF salt.len # SALT_LEN THEN FormatError("Invalid salt length")
     ELSE IF iv.len # IV_LEN THEN FormatError("Invalid iv length")
     ELSE IF tag.len # TAG_LEN THEN FormatError("Invalid tag length")
     ELSE
       LET key == deriveKey(password, salt)
       IN [ok |-> TRUE,
           value |-> TextFromUtf8(GcmPlaintext(key, iv,
                                               FromBase64(payload.data)))]

\* the lengths passed every check
LengthsOk == [ok |-> TRUE, err |-> "none", msg |-> ""]

\* mutant: the length of the iv is not checked
DecryptChecks_NoIvCheck(payload) ==
  LET salt == FromHex(payload.salt)
      tag == FromHex(payload.tag)
  IN IF salt.len # SALT_LEN THEN FormatError("Invalid salt length")
     ELSE IF tag.len # TAG_LEN THEN FormatError("Invalid tag length")
     ELSE LengthsOk

\* decrypt up to `await deriveKey`: the three length checks, in their order
DecryptChecks(payload) ==
  LET salt == FromHex(payload.salt)
      iv == FromHex(payload.iv)
      tag == FromHex(payload.tag)
  IN IF salt.len # SALT_LEN THEN FormatError("Invalid salt length")
     ELSE IF iv.len # IV_LEN THEN FormatError("Invalid iv length")
     ELSE IF tag.len # TAG_LEN THEN FormatError("Invalid tag length")
     ELSE LengthsOk

\* decrypt(payload, password): [ok, value] or an error
decrypt(payload, password) ==
  LET salt == FromHex(payload.salt)
      iv == FromHex(payload.iv)
      tag == FromHex(payload.tag)
      c == DecryptChecks(payload)
  IN IF ~c.ok THEN c
     ELSE
       LET key == deriveKey(password, salt)
           r == GcmOpen(key, iv, FromBase64(payload.data), tag)
       IN IF r.ok THEN [ok |-> TRUE, value |-> TextFromUtf8(r.value)] ELSE r

\* isEncryptedPayload(obj) for a parsed JSON value (<<>> when parsing failed
\* or gave no object)
isEncryptedPayload(obj) ==
  /\ obj # <<>>
  /\ obj.jt = "env"
  /\ obj.version = 1

-----------------------------------------------------------------------------
(* keystore.ts: what JSON.parse makes of a text *)

\* a file that a write has not finished: the first bytes of a binary file
RawPartText(seq) == [tk |-> "rawpart", seq |-> seq, json |-> <<>>]

IsJsonWs(c) == c \in {32, 9, 10, 13}

RECURSIVE TrimStart(_)
TrimStart(s) ==
  IF s # <<>> /\ IsJsonWs(Head(s)) THEN TrimStart(Tail(s)) ELSE s

RECURSIVE TrimEnd(_)
TrimEnd(s) ==
  IF s # <<>> /\ IsJsonWs(s[Len(s)])
    THEN TrimEnd(SubSeq(s, 1, Len(s) - 1))
    ELSE s

\* -?(0|[1-9][0-9]*): the JSON numbers a text of the model can spell
IsJsonInteger(s) ==
  LET d == IF s # <<>> /\ s[1] = 45 THEN Tail(s) ELSE s
  IN /\ d # <<>>
     /\ \A i \in 1..Len(d) : IsDigit(d[i])
     /\ Len(d) > 1 => d[1] # 48

\* "...": a JSON string without escapes
IsJsonString(s) ==
  /\ Len(s) >= 2
  /\ s[1] = 34
  /\ s[Len(s)] = 34
  /\ \A i \in 2..(Len(s) - 1) : s[i] >= 32 /\ s[i] # 34 /\ s[i] # 92

JsonParseFails == [ok |-> FALSE, cls |-> "none", obj |-> <<>>]

\* JSON.parse(text): ok is FALSE when it throws; cls tells a plain object from
\* an array and from null, a boolean, a number or a string; obj is the parsed
\* object.
\* The JSON objects of the model are the texts written with JsonText; a
\* spelled-out text is an object only when it is "{}".
JsonParse(text) ==
  IF text.tk = "json" THEN [ok |-> TRUE, cls |-> "object", obj |-> text.json]
  ELSE IF text.tk = "jsonpart" THEN JsonParseFails
  ELSE
    LET s == TrimEnd(TrimStart(text.seq))
    IN IF s = <<123, 125>>
         THEN [ok |-> TRUE, cls |-> "object", obj |-> JsonMap(<<>>)]
       ELSE IF s = <<91, 93>>
         THEN [ok |-> TRUE, cls |-> "array", obj |-> <<>>]
       ELSE IF \/ s = <<110, 117, 108, 108>>
               \/ s = <<116, 114, 117, 101>>
               \/ s = <<102, 97, 108, 115, 101>>
               \/ IsJsonInteger(s)
               \/ IsJsonString(s)
         THEN [ok |-> TRUE, cls |-> "scalar", obj |-> <<>>]
       ELSE JsonParseFails

\* rawBuf.toString('utf8')
BufToString(content) ==
  IF content.tk \in {"raw", "rawpart"}
    THEN RawText(Utf8Decode(content.seq))
    ELSE content

\* the bytes of rawBuf as far as decodeKeystoreData reads them: a JSON text
\* starts with '{', whose wire type 3 ends the decoding at the first tag
BufBytes(content) ==
  IF content.tk \in {"raw", "rawpart"} THEN content.seq ELSE <<123>>

\* Buffer.from(plain, 'base64') of a decrypted plaintext
PlainFromBase64(plain) ==
  IF plain.tk = "raw" THEN Base64Decode(plain.seq) ELSE <<>>

-----------------------------------------------------------------------------
(* keystore.ts: the Keystore class *)

\* the destination path, this.filePath
FilePath == "file"

\* mutant: the new content is written straight to the destination
TmpPath_IsFilePath == "file"

\* its temporary sibling, this.filePath + '.tmp'
TmpPath == "tmp"

Paths == {"file", "tmp"}
NoFile == <<>>

\* mutant: the temporary file is copied over the destination and stays
RenameSync_Copies(files, from, to) ==
  [files EXCEPT ![to] = files[from]]

\* fs.renameSync(from, to)
RenameSync(files, from, to) ==
  IF from = to THEN files
  ELSE [files EXCEPT ![to] = files[from], ![from] = NoFile]

\* `if (this.password)` / `if (!this.password)`: undefined and "" are falsy
HasPassword(password) == password # Undef /\ password # <<>>

\* the Error thrown at keystore.ts:81
MissingPasswordError ==
  [ok |-> FALSE, err |-> "MissingPasswordError",
   msg |-> "Keystore is encrypted but no password provided"]

\* this.data[key] read on an object created by {} or JSON.parse: an own
\* property, or what the object inherits from Object.prototype (the object
\* Object.prototype itself for "__proto__", the function Object for
\* "constructor"), or undefined
ObjectPrototype == <<-2>>
ObjectFunction == <<-3>>
ObjGet(obj, k) ==
  IF HasOwn(obj, k) THEN obj[OwnIndex(obj, k)][2]
  ELSE IF k = STR_PROTO THEN ObjectPrototype
  ELSE IF k = STR_constructor THEN ObjectFunction
  ELSE Undef

\* the object JSON.parse builds from the members of a JSON object text
ParsedObject(j) == ObjFromPairs(<<>>, j.m)

\* mutant: without a password an encrypted file is read as a plain one
ReadBranch_FallsBack(parsed, password) ==
  IF parsed.ok /\ isEncryptedPayload(parsed.obj) /\ HasPassword(password)
    THEN "encrypted"
  ELSE IF parsed.ok /\ parsed.cls = "object" /\ parsed.obj.jt = "map"
    THEN "legacy"
  ELSE "binary"

\* mutant: the test for a plain object comes before the test for an
\* encrypted payload
ReadBranch_LegacyFirst(parsed, password) ==
  IF parsed.ok /\ parsed.cls = "object" THEN "legacy"
  ELSE IF parsed.ok /\ isEncryptedPayload(parsed.obj)
    THEN IF ~HasPassword(password) THEN "nopassword" ELSE "encrypted"
  ELSE "binary"

\* the branch read() takes for the parsed file content
ReadBranch(parsed, password) ==
  IF parsed.ok /\ isEncryptedPayload(parsed.obj)
    THEN IF ~HasPassword(password) THEN "nopassword" ELSE "encrypted"
  ELSE IF parsed.ok /\ parsed.cls = "object" THEN "legacy"
  ELSE "binary"

ReadOk(data) ==
  [st |-> "ok", data |-> data, err |-> NoResult, env |-> <<>>]
ReadThrows(err) ==
  [st |-> "error", data |-> <<>>, err |-> err, env |-> <<>>]

\* mutant: a missing file is read like any other and fs.readFileSync throws
ReadSync_MissingThrows(content, password) ==
  IF content = NoFile
    THEN ReadThrows([ok |-> FALSE, err |-> "ENOENT",
                     msg |-> "no such file or directory"])
  ELSE
    LET parsed == JsonParse(BufToString(content))
        branch == ReadBranch(parsed, password)
    IN IF branch = "nopassword" THEN ReadThrows(MissingPasswordError)
       ELSE IF branch = "encrypted" THEN
         LET r == decrypt(parsed.obj, password)
         IN IF ~r.ok /\ r.err = "FormatError"
              THEN ReadThrows(r)
              ELSE [st |-> "suspend", data |-> <<>>, err |-> NoResult,
                    env |-> parsed.obj]
       ELSE IF branch = "legacy" THEN ReadOk(ParsedObject(parsed.obj))
       ELSE
         LET r == decodeKeystoreData(BufBytes(content))
         IN IF r.ok THEN ReadOk(r.value) ELSE ReadThrows(r)

\* read() up to its first suspension: the file is missing, the data is
\* loaded, an error is thrown, or the call waits for scrypt inside decrypt
ReadSync(content, password) ==
  IF content = NoFile
    THEN [st |-> "missing", data |-> <<>>, err |-> NoResult, env |-> <<>>]
  ELSE
    LET parsed == JsonParse(BufToString(content))
        branch == ReadBranch(parsed, password)
    IN IF branch = "nopassword" THEN ReadThrows(MissingPasswordError)
       ELSE IF branch = "encrypted" THEN
         LET r == decrypt(parsed.obj, password)
         IN IF ~r.ok /\ r.err = "FormatError"
              THEN ReadThrows(r)
              ELSE [st |-> "suspend", data |-> <<>>, err |-> NoResult,
                    env |-> parsed.obj]
       ELSE IF branch = "legacy" THEN ReadOk(ParsedObject(parsed.obj))
       ELSE
         LET r == decodeKeystoreData(BufBytes(content))
         IN IF r.ok THEN ReadOk(r.value) ELSE ReadThrows(r)

\* read() from the completion of scrypt on
ReadAfterDerive(env, password) ==
  LET r == decrypt(env, password)
  IN IF ~r.ok THEN ReadThrows(r)
     ELSE
       LET maybeJson == JsonParse(r.value)
       IN IF maybeJson.ok /\ maybeJson.cls = "object"
            THEN ReadOk(ParsedObject(maybeJson.obj))
            ELSE
              LET d == decodeKeystoreData(PlainFromBase64(r.value))
              IN IF d.ok THEN ReadOk(d.value) ELSE ReadThrows(d)

\* mutant: with a password the JSON text of the map is encrypted, as the
\* oldest encrypted files were made
WriteContent_EncryptsJson(data, password, saltId, ivId) ==
  IF HasPassword(password)
    THEN JsonText(encrypt(JsonText(JsonMap(data)), password, saltId, ivId))
    ELSE RawText(encodeKeystoreData(data))

\* the text write() hands to fs.writeFileSync
WriteContent(data, password, saltId, ivId) ==
  LET protoBuf == encodeKeystoreData(data)
  IN IF HasPassword(password)
       THEN JsonText(encrypt(RawText(Base64Encode(protoBuf)), password,
                             saltId, ivId))
       ELSE RawText(protoBuf)

\* history of an instance: "new" until a method is called on it; "setting"
\* while the first call made on it, a set(key, val) that found `content` at
\* the path, is in flight and "set" once that call has returned; "reading"
\* and "read" likewise when the first call is a read(); "other" from any
\* other call on and when the first call fails
NewTrail == [st |-> "new", key |-> <<>>, val |-> <<>>, content |-> <<>>]
OtherTrail == [st |-> "other", key |-> <<>>, val |-> <<>>, content |-> <<>>]

\* a Keystore as its constructor leaves it
NewKeystore(password) ==
  [password |-> password, data |-> <<>>, loaded |-> FALSE, trail |-> NewTrail]

\* the instances and the slots for calls of the model
Inst == {1, 2}
Tasks == {1, 2}

Ok == [ok |-> TRUE, err |-> "", msg |-> ""]

\* history: the write that produced a file content (by = "store"), with the
\* map and password it wrote and whether the path was missing before it
ExternalFile ==
  [by |-> "external", map |-> <<>>, password |-> Undef, fresh |-> FALSE]

(***************************************************************************)
(* A call of a Keystore method.                                            *)
(*   op        "read", "get", "set", "keys", "getAll", "write", "toFile"   *)
(*   pc        "idle"     no call in this slot                             *)
(*             "derive"   read() waits for scrypt inside decrypt           *)
(*             "resume"   the method waits to go on after ensureLoaded()   *)
(*             "wderive"  write() waits for scrypt inside encrypt          *)
(*             "wopen"    write() is about to open the temporary file      *)
(*             "wchunk"   write() is writing the temporary file            *)
(*             "wrename"  write() is about to rename the temporary file    *)
(*             "done"     the promise is settled with res                  *)
(*   inst, key, val       this and the arguments                           *)
(*   password, env        arguments of decrypt held across its await       *)
(*   content   the file content read by read(), or the text write() is to  *)
(*             write                                                       *)
(*   res, map, str, list  how the promise settled and its value            *)
(* History fields: didRead (the call ran read()), src (fileBy of the       *)
(* content read), snap (this.data as write() encoded it), madeDir (the     *)
(* directory was missing when write() was called), old (the content of     *)
(* the path when write() was called), prior (the trail of the instance at  *)
(* the call).                                                              *)
(***************************************************************************)
IdleTask ==
  [op |-> "none", pc |-> "idle", inst |-> 0, key |-> <<>>, val |-> <<>>,
   password |-> Undef, env |-> <<>>, content |-> NoFile,
   res |-> NoResult, map |-> <<>>, str |-> Undef, list |-> <<>>,
   didRead |-> FALSE, src |-> ExternalFile, snap |-> <<>>,
   madeDir |-> FALSE, old |-> NoFile, prior |-> NewTrail]

\* the Keystore part at rest, for the specifications of the codec and of
\* encrypt and decrypt alone
StoreIdle ==
  /\ fs = [p \in Paths |-> NoFile]
  /\ dirExists = FALSE
  /\ ks = [i \in Inst |-> NewKeystore(Undef)]
  /\ tasks = [t \in Tasks |-> IdleTask]
  /\ running = 0
  /\ ops = 0
  /\ held = <<>>
  /\ heldOf = -1
  /\ fileBy = ExternalFile

\* the processes of the model of concurrent writers
Procs == {1, 2}

\* a process that has not called write(): pc is "idle", then "open" (about to
\* open the temporary file), "write" (pos bytes of content written through
\* the descriptor fd), "rename" (about to rename) and "done" (settled with res)
IdleProc ==
  [pc |-> "idle", fd |-> 0, pos |-> 0, content |-> <<>>, res |-> NoResult]

\* the two processes at rest, for the other specifications
ProcIdle ==
  /\ disk = [file |-> 0, tmp |-> 0, inodes |-> <<>>]
  /\ procs = [p \in Procs |-> IdleProc]

-----------------------------------------------------------------------------
(* The codec applied to bounded inputs *)

CodecKeys == {STR_EMPTY, STR_a, STR_1, STR_eacute, STR_PROTO}
CodecValues == {STR_EMPTY, STR_1, STR_eacute}

\* every string map with at most n entries over the given keys and values
ObjectsOver(keys, values, n) ==
  UNION {{ObjFromPairs(<<>>, q) :
            q \in {t \in [1..m -> keys \X values] :
                     \A i, j \in 1..m : i # j => t[i][1] # t[j][1]}} :
         m \in 0..n}

\* a string of 62 bytes: an entry with such a key and such a value has a body
\* of 128 bytes, whose length takes two varint bytes
STR_long == [i \in 1..62 |-> 97]

CodecInputs ==
  ObjectsOver(CodecKeys, CodecValues, MaxEntries)
    \cup {<<<<STR_long, STR_long>>>>}

\* nothing was put into the encoded bytes
NoInsert == [kind |-> "none", j |-> 0, key |-> <<>>, val |-> <<>>,
             bytes |-> <<>>]

\* decodeKeystoreData not called: pc is "idle"; in a call it is "outer" (at
\* the test of the outer loop, `from` being the offset at which the iteration
\* in progress began), "inner" (at the test of the inner loop of the entry
\* that ends at `end`) and "done" (returned or thrown, with res)
IdleDec ==
  [buf |-> <<>>, offset |-> 0, from |-> 0, end |-> 0, pc |-> "idle",
   key |-> Undef, value |-> Undef, result |-> <<>>, res |-> NoResult]

LoopIdle == dec = IdleDec

VarintIdle ==
  /\ vVal = [hi |-> 0, lo |-> 0]
  /\ vBuf = <<>>
  /\ vHow = "none"
  /\ vRes = NoResult
  /\ vStep = "idle"

CodecIdle ==
  /\ cData = <<>>
  /\ cBuf = <<>>
  /\ cCut = 0
  /\ cIns = NoInsert
  /\ cRes = NoResult
  /\ cStep = "idle"
  /\ VarintIdle
  /\ LoopIdle

CryptoIdle ==
  /\ xPlain = RawText(<<>>)
  /\ xPw = <<>>
  /\ xPayload = <<>>
  /\ xTamper = "none"
  /\ xPw2 = <<>>
  /\ xRes = NoResult
  /\ xCalls = <<>>
  /\ xStep = "idle"

InitCodec ==
  /\ cData \in CodecInputs
  /\ cBuf = <<>>
  /\ cCut = 0
  /\ cIns = NoInsert
  /\ cRes = NoResult
  /\ cStep = "input"
  /\ VarintIdle
  /\ LoopIdle
  /\ CryptoIdle
  /\ StoreIdle
  /\ ProcIdle

CodecEncode ==
  /\ cStep = "input"
  /\ cBuf' = encodeKeystoreData(cData)
  /\ cStep' = "encoded"
  /\ UNCHANGED <<cData, cCut, cIns, cRes>>
  /\ UNCHANGED <<vVal, vBuf, vHow, vRes, vStep, dec>>
  /\ UNCHANGED <<cryptoVars, storeVars, procVars>>

\* buf.subarray(0, buf.length - k)
CodecTruncate(k) ==
  /\ cStep = "encoded"
  /\ k >= 1 /\ k < Len(cBuf)
  /\ cBuf' = Subarray(cBuf, 0, Len(cBuf) - k)
  /\ cCut' = k
  /\ cStep' = "truncated"
  /\ UNCHANGED <<cData, cIns, cRes>>
  /\ UNCHANGED <<vVal, vBuf, vHow, vRes, vStep, dec>>
  /\ UNCHANGED <<cryptoVars, storeVars, procVars>>

\* bytes put between whole entries of the encoded buffer, after its first j
\* entries
CodecInsert(kind, j, key, val, bytes) ==
  /\ cStep = "encoded"
  /\ LET n == Len(EncodeEntries(SubSeq(ObjEntries(cData), 1, j)))
     IN cBuf' = Subarray(cBuf, 0, n) \o bytes \o Subarray(cBuf, n, Len(cBuf))
  /\ cIns' = [kind |-> kind, j |-> j, key |-> key, val |-> val,
              bytes |-> bytes]
  /\ cStep' = "inserted"
  /\ UNCHANGED <<cData, cCut, cRes>>
  /\ UNCHANGED <<vVal, vBuf, vHow, vRes, vStep, dec>>
  /\ UNCHANGED <<cryptoVars, storeVars, procVars>>

\* one more outer entry for a key the buffer already holds
CodecRepeatKey(j, i) ==
  CodecInsert("entry", j, ObjEntries(cData)[i][1], STR_2,
               EncodeEntry(ObjEntries(cData)[i][1], STR_2))

\* outer fields other than (field number 1, length-delimited), each complete:
\* a tag and what its wire type asks for
UnknownFields ==
  {<<16, 1>>,                                \* field 2, varint 1
   <<8, 172, 2>>,                            \* field 1, varint 300
   <<0, 255, 255, 255, 255, 15>>,            \* field 0, varint 2^32 - 1
   <<17, 10, 3, 10, 1, 97, 255, 0, 18>>,     \* field 2, 64-bit
   <<18, 0>>,                                \* field 2, no bytes
   <<18, 5, 10, 3, 10, 1, 97>>,              \* field 2, five bytes
   <<29, 10, 1, 97, 128>>,                   \* field 3, 32-bit
   <<128, 1, 0>>,                            \* field 16, varint 0
   <<250, 255, 255, 255, 15, 1, 10>>}        \* field 2^29 - 1, one byte

CodecAddField(j, field) ==
  CodecInsert("field", j, <<>>, <<>>, field)

CodecDecode ==
  /\ cStep \in {"encoded", "truncated", "inserted"}
  /\ cRes' = decodeKeystoreData(cBuf)
  /\ cStep' = "decoded"
  /\ UNCHANGED <<cData, cBuf, cCut, cIns>>
  /\ UNCHANGED <<vVal, vBuf, vHow, vRes, vStep, dec>>
  /\ UNCHANGED <<cryptoVars, storeVars, procVars>>

NextCodec ==
  \/ CodecEncode
  \/ \E k \in 1..Len(cBuf) : CodecTruncate(k)
  \/ \E j \in 0..Len(cData), i \in 1..Len(cData) : CodecRepeatKey(j, i)
  \/ \E j \in 0..Len(cData), field \in UnknownFields : CodecAddField(j, field)
  \/ CodecDecode

SpecCodec == InitCodec /\ [][NextCodec]_vars

-----------------------------------------------------------------------------
(* encodeVarint and decodeVarint applied to bounded inputs *)

\* uint32 values at the ends of every encoded length, as [hi, lo]
VarintInputs ==
  {[hi |-> 0, lo |-> n] :
     n \in {0, 1, 127, 128, 300, 16383, 16384, TwoTo21 - 1, TwoTo21,
            TwoTo28 - 1}}
    \cup {[hi |-> h, lo |-> n] : h \in {1, 7, 8, 15}, n \in {0, TwoTo28 - 1}}

\* the bytes put behind a buffer
VarintBytes == {0, 127, 128, 255}

InitVarint ==
  /\ vVal \in VarintInputs
  /\ vBuf = <<>>
  /\ vHow = "none"
  /\ vRes = NoResult
  /\ vStep = "input"
  /\ LoopIdle
  /\ cData = <<>>
  /\ cBuf = <<>>
  /\ cCut = 0
  /\ cIns = NoInsert
  /\ cRes = NoResult
  /\ cStep = "idle"
  /\ CryptoIdle
  /\ StoreIdle
  /\ ProcIdle

VarintEncode ==
  /\ vStep = "input"
  /\ vBuf' = EncodeVarintU32(vVal)
  /\ vStep' = "encoded"
  /\ UNCHANGED <<vVal, vHow, vRes>>
  /\ UNCHANGED <<cData, cBuf, cCut, cIns, cRes, cStep, dec>>
  /\ UNCHANGED <<cryptoVars, storeVars, procVars>>

\* buf.subarray(0, buf.length - k)
VarintTruncate(k) ==
  /\ vStep = "encoded"
  /\ k >= 1 /\ k <= Len(vBuf)
  /\ vBuf' = Subarray(vBuf, 0, Len(vBuf) - k)
  /\ vHow' = "cut"
  /\ vStep' = "changed"
  /\ UNCHANGED <<vVal, vRes>>
  /\ UNCHANGED <<cData, cBuf, cCut, cIns, cRes, cStep, dec>>
  /\ UNCHANGED <<cryptoVars, storeVars, procVars>>

\* the last byte gets the continuation bit and the byte b follows it
VarintExtend(b) ==
  /\ vStep \in {"encoded", "changed"}
  /\ vHow \in {"none", "extended"}
  /\ Len(vBuf) < MaxVarintBytes
  /\ vBuf' = [vBuf EXCEPT ![Len(vBuf)] = (@ % 128) + 128] \o <<b>>
  /\ vHow' = "extended"
  /\ vStep' = "changed"
  /\ UNCHANGED <<vVal, vRes>>
  /\ UNCHANGED <<cData, cBuf, cCut, cIns, cRes, cStep, dec>>
  /\ UNCHANGED <<cryptoVars, storeVars, procVars>>

VarintDecode ==
  /\ vStep \in {"encoded", "changed"}
  /\ vRes' = decodeVarint(vBuf, 0)
  /\ vStep' = "decoded"
  /\ UNCHANGED <<vVal, vBuf, vHow>>
  /\ UNCHANGED <<cData, cBuf, cCut, cIns, cRes, cStep, dec>>
  /\ UNCHANGED <<cryptoVars, storeVars, procVars>>

NextVarint ==
  \/ VarintEncode
  \/ \E k \in 1..MaxVarintBytes : VarintTruncate(k)
  \/ \E b \in VarintBytes : VarintExtend(b)
  \/ VarintDecode

SpecVarint == InitVarint /\ [][NextVarint]_vars

-----------------------------------------------------------------------------
(* keystore_proto.ts: decodeKeystoreData, one loop iteration at a time *)

\* the longest of the buffers made of every combination of LoopBytes
MaxLoopLen == 4

\* tags of an entry (10), of a string sub-field 2 (18), of a varint field
\* (8) and of a 32-bit field (13); lengths and values 0, 1 and 2; a byte with
\* the continuation bit
LoopBytes == {0, 1, 2, 8, 10, 13, 18, 128}

\* longer buffers: {"a": "1"} encoded; an entry whose sub-message holds a
\* 64-bit, a varint and a 32-bit sub-field and the two strings; a 64-bit
\* and a 32-bit field before an empty entry; an entry of declared length 1
\* whose 64-bit sub-field lies behind its end; an entry with a sub-field of
\* the unknown wire type 3
LoopBuffers ==
  {encodeKeystoreData(<<<<STR_a, STR_1>>>>),
   <<10, 22, 9, 1, 2, 3, 4, 5, 6, 7, 8, 8, 5, 13, 1, 2, 3, 4,
     10, 1, 97, 18, 1, 49>>,
   <<9, 1, 2, 3, 4, 5, 6, 7, 8, 13, 1, 2, 3, 4, 10, 0>>,
   <<10, 1, 9, 10, 3, 10, 1, 97, 18, 1>>,
   <<10, 2, 11, 0>>}

LoopInputs ==
  LoopBuffers \cup UNION {[1..n -> LoopBytes] : n \in 0..MaxLoopLen}

InitLoop ==
  /\ dec \in {[IdleDec EXCEPT !.buf = b, !.pc = "outer"] : b \in LoopInputs}
  /\ cData = <<>>
  /\ cBuf = <<>>
  /\ cCut = 0
  /\ cIns = NoInsert
  /\ cRes = NoResult
  /\ cStep = "idle"
  /\ VarintIdle
  /\ CryptoIdle
  /\ StoreIdle
  /\ ProcIdle

\* a throw inside decodeKeystoreData
LoopThrow(err) == [dec EXCEPT !.pc = "done", !.res = err]

LoopUnchanged ==
  /\ UNCHANGED <<cData, cBuf, cCut, cIns, cRes, cStep>>
  /\ UNCHANGED <<vVal, vBuf, vHow, vRes, vStep>>
  /\ UNCHANGED <<cryptoVars, storeVars, procVars>>

\* `while (offset < buf.length)` is false: return result
LoopReturn ==
  /\ dec.pc = "outer"
  /\ ~(dec.offset < Len(dec.buf))
  /\ dec' = [dec EXCEPT !.pc = "done",
                         !.res = [ok |-> TRUE, value |-> dec.result]]
  /\ LoopUnchanged

\* an iteration of the outer loop up to `continue` for a field that is
\* skipped, or up to the inner loop for an entry
LoopOuter ==
  LET buf == dec.buf
      t == decodeVarint(buf, dec.offset)
      fieldNumber == U32Shr3(t.value)
      wireType == U32And7(t.value)
      s == skipField(buf, t.nextOffset, wireType)
      m == decodeVarint(buf, t.nextOffset)
  IN /\ dec.pc = "outer"
     /\ dec.offset < Len(buf)
     /\ dec' =
          IF ~t.ok THEN LoopThrow(t)
          ELSE IF fieldNumber # 1 \/ wireType # WIRE_TYPE_LENGTH_DELIMITED THEN
            IF ~s.ok THEN LoopThrow(s)
            ELSE [dec EXCEPT !.offset = s.offset, !.from = s.offset]
          ELSE IF ~m.ok THEN LoopThrow(m)
          ELSE IF Exceeds(m.nextOffset, m.value, Len(buf))
            THEN LoopThrow(DecodeError("Sub-message length exceeds buffer"))
          ELSE [dec EXCEPT !.offset = m.nextOffset,
                           !.end = m.nextOffset + m.value.lo,
                           !.key = Undef, !.value = Undef, !.pc = "inner"]
     /\ LoopUnchanged

\* an iteration of the inner loop `while (offset < end)`
LoopInner ==
  LET buf == dec.buf
      t == decodeVarint(buf, dec.offset)
      innerField == U32Shr3(t.value)
      innerWire == U32And7(t.value)
      s == skipField(buf, t.nextOffset, innerWire)
      l == decodeVarint(buf, t.nextOffset)
      str == Utf8Decode(Subarray(buf, l.nextOffset, l.nextOffset + l.value.lo))
  IN /\ dec.pc = "inner"
     /\ dec.offset < dec.end
     /\ dec' =
          IF ~t.ok THEN LoopThrow(t)
          ELSE IF innerWire # WIRE_TYPE_LENGTH_DELIMITED THEN
            IF ~s.ok THEN LoopThrow(s) ELSE [dec EXCEPT !.offset = s.offset]
          ELSE IF ~l.ok THEN LoopThrow(l)
          ELSE IF Exceeds(l.nextOffset, l.value, dec.end)
            THEN LoopThrow(
                   DecodeError("String length exceeds sub-message boundary"))
          ELSE [dec EXCEPT !.offset = l.nextOffset + l.value.lo,
                           !.key = IF innerField = 1 THEN str ELSE @,
                           !.value = IF innerField = 2 THEN str ELSE @]
     /\ LoopUnchanged

\* `while (offset < end)` is false: the entry is stored when it has a key and
\* a value, and the iteration of the outer loop ends
LoopEntryDone ==
  /\ dec.pc = "inner"
  /\ ~(dec.offset < dec.end)
  /\ dec' = [dec EXCEPT
               !.result = IF dec.key # Undef /\ dec.value # Undef
                            THEN ObjSet(@, dec.key, dec.value)
                            ELSE @,
               !.from = dec.offset,
               !.pc = "outer"]
  /\ LoopUnchanged

NextLoop ==
  \/ LoopReturn
  \/ LoopOuter
  \/ LoopInner
  \/ LoopEntryDone

SpecLoop == InitLoop /\ [][NextLoop]_vars

\* a call that is running takes its next step
SpecLoopFair == SpecLoop /\ WF_vars(NextLoop)

-----------------------------------------------------------------------------
(* Claims about the codec *)

\* C4 (as stated): for every string-to-string map M, including the empty map
\* and maps with empty-string keys or values, decode(encode(M)) equals M.
C4_RoundTrip ==
  (cStep = "decoded" /\ cCut = 0 /\ cIns = NoInsert) =>
    (cRes.ok /\ MapOf(cRes.value) = MapOf(cData))

\* the encoded length of the first j entries of data
PrefixLen(data, j) == Len(EncodeEntries(SubSeq(ObjEntries(data), 1, j)))

\* the cut leaves exactly the encoding of a leading run of whole entries
OnEntryBoundary(data, n) == \E j \in 1..Len(data) : PrefixLen(data, j) = n

\* C7 (as stated): for every nonempty map M and every k with
\* 1 <= k < len(encode(M)), decoding encode(M) without its last k bytes
\* raises DecodeError and never returns a map.
C7_TruncationAlwaysFails ==
  (cStep = "decoded" /\ cCut >= 1 /\ cData # <<>>) => ~cRes.ok

\* C7 (amended): for every nonempty map M and every k with
\* 1 <= k < len(encode(M)), decoding encode(M) without its last k bytes raises
\* DecodeError unless the remaining bytes are exactly the encoding of a
\* leading run of M's entries; in that case decode returns a map.
C7_TruncationFailsOffBoundary ==
  (cStep = "decoded" /\ cCut >= 1 /\ cData # <<>>) =>
    /\ cRes.ok <=> OnEntryBoundary(cData, Len(cBuf))
    /\ ~cRes.ok => cRes.err = "DecodeError"

\* a two-entry map cut inside its second entry: decode raised
C7_Witness ==
  /\ cStep = "decoded"
  /\ cCut >= 1
  /\ Len(cData) = 2
  /\ Len(cBuf) > PrefixLen(cData, 1)
  /\ ~cRes.ok
  /\ cRes.err = "DecodeError"

RECURSIVE Leb128(_)
\* unsigned LEB128 of n: seven bits to a byte, the low bits first, 0x80 set on
\* every byte but the last
Leb128(n) ==
  IF n < 128 THEN <<n>> ELSE <<128 + (n % 128)>> \o Leb128(n \div 128)

\* the body of the record of one entry
RecordBody(key, value) ==
  <<10>> \o Leb128(Len(Utf8Encode(key))) \o Utf8Encode(key)
    \o <<18>> \o Leb128(Len(Utf8Encode(value))) \o Utf8Encode(value)

RECURSIVE Records(_)
\* one record per entry, in the order of the entries
Records(entries) ==
  IF entries = <<>> THEN <<>>
  ELSE LET body == RecordBody(Head(entries)[1], Head(entries)[2])
       IN <<10>> \o Leb128(Len(body)) \o body \o Records(Tail(entries))

\* C18: encode(M) is the concatenation, in the iteration order of M, of one
\* record per entry: 0x0A, varint(byte length of body), body, where body is
\* 0x0A, varint(byte length of key), the key's UTF-8 bytes, 0x12,
\* varint(byte length of value), the value's UTF-8 bytes; the empty map
\* encodes to zero bytes.
C18_EncodeLayout ==
  cStep = "encoded" =>
    /\ cBuf = Records(ObjEntries(cData))
    /\ cData = <<>> => cBuf = <<>>

\* an entry with a body of 128 bytes was encoded: the length of the body is
\* the two-byte varint 0x80 0x01
C18_Witness ==
  /\ cStep = "encoded"
  /\ cData = <<<<STR_long, STR_long>>>>
  /\ Len(cBuf) = 131
  /\ SubSeq(cBuf, 1, 6) = <<10, 128, 1, 10, 62, 97>>

\* the number of entries of the decoded map with key k
Occurrences(obj, k) == Cardinality({i \in 1..Len(obj) : obj[i][1] = k})

\* the entries of the buffer once an entry was put after its first j entries
EntriesWith(entries, j, key, val) ==
  SubSeq(entries, 1, j) \o <<<<key, val>>>>
    \o SubSeq(entries, j + 1, Len(entries))

\* the value of the last entry with key k
LastValue(entries, k) ==
  LET last == CHOOSE i \in 1..Len(entries) :
                /\ entries[i][1] = k
                /\ \A n \in (i + 1)..Len(entries) : entries[n][1] # k
  IN entries[last][2]

\* C19 (as stated): when a key occurs in several outer entries of the bytes,
\* decode returns a map that holds the key exactly once, with the value of
\* its last occurrence.
C19_LastOccurrenceWins ==
  (cStep = "decoded" /\ cIns.kind = "entry") =>
    /\ cRes.ok
    /\ Occurrences(cRes.value, cIns.key) = 1
    /\ ObjGet(cRes.value, cIns.key)
         = LastValue(EntriesWith(ObjEntries(cData), cIns.j, cIns.key,
                                 cIns.val), cIns.key)

\* C20: an outer field that is not (field number 1, length-delimited), put
\* whole before, between or after the entries, is skipped by its wire type:
\* decode returns what it returns for the bytes without the field.
C20_UnknownFieldsSkipped ==
  (cStep = "decoded" /\ cIns.kind = "field") =>
    /\ cRes.ok
    /\ cRes = decodeKeystoreData(encodeKeystoreData(cData))

\* a 64-bit field between the two entries of a map was skipped
C20_Witness ==
  /\ cStep = "decoded"
  /\ cIns.kind = "field"
  /\ cIns.j = 1
  /\ cIns.bytes[1] = 17
  /\ Len(cData) = 2
  /\ cRes.ok
  /\ Len(cRes.value) = 2

\* none of the first five bytes of buf ends a varint
NoLastByte(buf) ==
  \A i \in 1..Len(buf) : i <= 5 => buf[i] >= 128

\* C21: for every v in [0, 2^32) encodeVarint emits 1 to 5 bytes, the
\* unsigned LEB128 form of v, and decodeVarint returns v from them and stops
\* behind them; decodeVarint fails when none of the first five bytes ends the
\* varint (a sixth byte would be needed, or the buffer ends first), and every
\* value it returns lies in [0, 2^32).
C21_VarintUint32 ==
  /\ vStep = "encoded" =>
       /\ Len(vBuf) \in 1..5
       /\ vVal.hi < 8 => vBuf = Leb128(vVal.hi * TwoTo28 + vVal.lo)
  /\ (vStep = "decoded" /\ vHow = "none") =>
       /\ vRes.ok
       /\ vRes.value = vVal
       /\ vRes.nextOffset = Len(vBuf)
  /\ (vStep = "decoded" /\ NoLastByte(vBuf)) =>
       /\ ~vRes.ok
       /\ vRes.err = "DecodeError"
  /\ (vStep = "decoded" /\ vRes.ok) =>
       /\ vRes.value.hi \in 0..15
       /\ vRes.value.lo \in 0..(TwoTo28 - 1)

\* 2^32 - 1 came back from its five bytes
C21_Witness ==
  /\ vStep = "decoded"
  /\ vHow = "none"
  /\ vVal = [hi |-> 15, lo |-> TwoTo28 - 1]
  /\ vBuf = <<255, 255, 255, 255, 15>>
  /\ vRes.ok
  /\ vRes.value = vVal

\* six bytes, the first five with the continuation bit: decodeVarint raised
C21_WitnessTooLong ==
  /\ vStep = "decoded"
  /\ Len(vBuf) = 6
  /\ NoLastByte(vBuf)
  /\ ~vRes.ok
  /\ vRes.msg = "Varint too long (> 5 bytes for uint32)"

-----------------------------------------------------------------------------
(* encrypt and decrypt applied to bounded inputs *)

PW_EMPTY == <<>>
PW_p == <<112>>
PW_q == <<113>>

CryptoPasswords == {PW_EMPTY, PW_p, PW_q}

\* "", "a", "é" and the base64 text of a one-entry keystore
CryptoPlaintexts ==
  {RawText(STR_EMPTY), RawText(STR_a), RawText(STR_eacute),
   RawText(Base64Encode(encodeKeystoreData(<<<<STR_a, STR_1>>>>)))}

\* the alterations of a payload after encryption: the ciphertext bytes or the
\* tag bytes changed in place, or the tag cut to its first four bytes, the
\* salt or the iv cut to its first eight bytes
TamperKinds == {"data", "tag", "taglen", "saltlen", "ivlen"}

Altered(s) == [s EXCEPT !.bytes.mod = 1]
Shortened(s, n) == [s EXCEPT !.bytes.len = n, !.bytes.mod = 1]

InitCrypto ==
  /\ xPlain \in CryptoPlaintexts
  /\ xPw \in CryptoPasswords
  /\ xPayload = <<>>
  /\ xTamper = "none"
  /\ xPw2 = <<>>
  /\ xRes = NoResult
  /\ xCalls = <<>>
  /\ xStep = "input"
  /\ CodecIdle
  /\ StoreIdle
  /\ ProcIdle

CryptoEncrypt(saltId, ivId) ==
  /\ xStep = "input"
  /\ xPayload' = encrypt(xPlain, xPw, saltId, ivId)
  /\ xCalls' = <<[saltId |-> saltId, ivId |-> ivId, payload |-> xPayload']>>
  /\ xStep' = "encrypted"
  /\ UNCHANGED <<xPlain, xPw, xTamper, xPw2, xRes>>
  /\ UNCHANGED <<codecVars, storeVars, procVars>>

\* a second call encrypt(xPlain, xPw)
CryptoEncryptAgain(saltId, ivId) ==
  /\ xStep = "encrypted"
  /\ xTamper = "none"
  /\ Len(xCalls) = 1
  /\ xCalls' = Append(xCalls,
                      [saltId |-> saltId, ivId |-> ivId,
                       payload |-> encrypt(xPlain, xPw, saltId, ivId)])
  /\ UNCHANGED <<xPlain, xPw, xPayload, xTamper, xPw2, xRes, xStep>>
  /\ UNCHANGED <<codecVars, storeVars, procVars>>

CryptoTamper(kind) ==
  /\ xStep = "encrypted"
  /\ xTamper = "none"
  /\ xPayload' =
       IF kind = "data" THEN [xPayload EXCEPT !.data = Altered(@)]
       ELSE IF kind = "tag" THEN [xPayload EXCEPT !.tag = Altered(@)]
       ELSE IF kind = "taglen" THEN [xPayload EXCEPT !.tag = Shortened(@, 4)]
       ELSE IF kind = "saltlen"
         THEN [xPayload EXCEPT !.salt = Shortened(@, 8)]
       ELSE [xPayload EXCEPT !.iv = Shortened(@, 8)]
  /\ xTamper' = kind
  /\ UNCHANGED <<xPlain, xPw, xPw2, xRes, xCalls, xStep>>
  /\ UNCHANGED <<codecVars, storeVars, procVars>>

\* decrypt(payload, password) up to `await deriveKey(password, salt)`, or to
\* the throw before it
CryptoDecrypt(password) ==
  /\ xStep = "encrypted"
  /\ xPw2' = password
  /\ LET c == DecryptChecks(xPayload)
     IN IF c.ok
          THEN xRes' = NoResult /\ xStep' = "deriving"
          ELSE xRes' = c /\ xStep' = "decrypted"
  /\ UNCHANGED <<xPlain, xPw, xPayload, xTamper, xCalls>>
  /\ UNCHANGED <<codecVars, storeVars, procVars>>

\* scrypt has called back: decrypt runs to its end
CryptoDerived ==
  /\ xStep = "deriving"
  /\ xRes' = decrypt(xPayload, xPw2)
  /\ xStep' = "decrypted"
  /\ UNCHANGED <<xPlain, xPw, xPayload, xTamper, xPw2, xCalls>>
  /\ UNCHANGED <<codecVars, storeVars, procVars>>

NextCrypto ==
  \/ \E saltId, ivId \in 1..MaxRandom : CryptoEncrypt(saltId, ivId)
  \/ \E saltId, ivId \in 1..MaxRandom : CryptoEncryptAgain(saltId, ivId)
  \/ \E kind \in TamperKinds : CryptoTamper(kind)
  \/ \E password \in CryptoPasswords : CryptoDecrypt(password)
  \/ CryptoDerived

SpecCrypto == InitCrypto /\ [][NextCrypto]_vars

-----------------------------------------------------------------------------
(* Claims about encrypt and decrypt *)

\* C9 (as stated): for any plaintext P and passwords W1 # W2,
\* decrypt(encrypt(P, W1), W2) raises AuthenticationError and returns no
\* plaintext; the same holds when the payload's ciphertext or tag has been
\* altered after encryption.
C9_WrongKeyOrTamperIsAuthError ==
  (/\ xStep = "decrypted"
   /\ xTamper \notin {"saltlen", "ivlen"}
   /\ (xPw2 # xPw \/ xTamper # "none")) =>
    (~xRes.ok /\ xRes.err = "AuthenticationError")

\* C9 (amended): for any plaintext P and passwords W1 # W2,
\* decrypt(encrypt(P, W1), W2) raises AuthenticationError and returns no
\* plaintext; when the payload's ciphertext or tag has been altered after
\* encryption decrypt returns no plaintext either: it raises
\* AuthenticationError, or FormatError when the altered tag is no longer 16
\* bytes long.
C9_WrongKeyOrTamperFails ==
  (/\ xStep = "decrypted"
   /\ xTamper \notin {"saltlen", "ivlen"}
   /\ (xPw2 # xPw \/ xTamper # "none")) =>
    /\ ~xRes.ok
    /\ xRes.err = IF xTamper = "taglen" THEN "FormatError"
                  ELSE "AuthenticationError"

\* decrypt with another password raised AuthenticationError
C9_Witness ==
  /\ xStep = "decrypted"
  /\ xTamper = "none"
  /\ xPw = PW_p
  /\ xPw2 = PW_q
  /\ ~xRes.ok
  /\ xRes.err = "AuthenticationError"

\* C10: for every plaintext P and every password W, decrypt(encrypt(P, W), W)
\* returns exactly P.
C10_DecryptInvertsEncrypt ==
  (xStep = "decrypted" /\ xTamper = "none" /\ xPw2 = xPw) =>
    (xRes.ok /\ xRes.value = xPlain)

\* a non-ASCII plaintext came back from decrypt under the same password
C10_Witness ==
  /\ xStep = "decrypted"
  /\ xTamper = "none"
  /\ xPw2 = xPw
  /\ xPlain = RawText(STR_eacute)
  /\ xRes.ok
  /\ xRes.value = xPlain

\* the decoded salt, iv or tag of the payload has not the length decrypt asks
BadLengths(payload) ==
  \/ FromHex(payload.salt).len # 16
  \/ FromHex(payload.iv).len # 12
  \/ FromHex(payload.tag).len # 16

\* C22: decrypt raises FormatError whenever the decoded salt is not 16 bytes,
\* the iv not 12 bytes or the tag not 16 bytes long, and it is never at the
\* derivation of the key with such a payload.
C22_LengthsCheckedFirst ==
  /\ (xStep = "decrypted" /\ BadLengths(xPayload)) =>
       (~xRes.ok /\ xRes.err = "FormatError")
  /\ xStep = "deriving" => ~BadLengths(xPayload)

\* the iv was cut to eight bytes: decrypt raised FormatError
C22_Witness ==
  /\ xStep = "decrypted"
  /\ xTamper = "ivlen"
  /\ FromHex(xPayload.iv).len = 8
  /\ ~xRes.ok
  /\ xRes.err = "FormatError"
  /\ xRes.msg = "Invalid iv length"

\* both calls of encrypt have returned and both payloads decrypt to the
\* plaintext
BothDecrypt ==
  \A n \in 1..2 :
    LET r == decrypt(xCalls[n].payload, xPw)
    IN r.ok /\ r.value = xPlain

-----------------------------------------------------------------------------
(* The Keystore class at work: one process, its instances over one path,   *)
(* calls that overlap at their awaits, a caller that changes the maps it   *)
(* was given, and a crash of the process.                                  *)

\* largest number of calls made in a behaviour
MaxOps == 2

StoreKeys == {STR_a, STR_b, STR_PROTO}
StoreValues == {STR_2}

\* the keys handed to get
GetKeys == {STR_a, STR_constructor}

\* the password the instances of the process are configured with: none, or
\* the password "p"
StorePasswords == {Undef, PW_p}

\* what the two calls of crypto.randomBytes in encrypt return: the salt and
\* iv of the encrypted files of InitFiles, or a new salt and iv
StoreRandom == {<<1, 1>>, <<2, 2>>}

\* {"a": "1"}
MAP_a1 == <<<<STR_a, STR_1>>>>

\* {"__proto__": "1", "b": "2"} as JSON.parse builds it
MAP_proto1_b2 == <<<<STR_PROTO, STR_1>>, <<STR_b, STR_2>>>>

\* the keystore path at the start: missing; a binary file; a legacy JSON
\* file; a legacy JSON file with a "__proto__" member; an encrypted file
\* of a binary keystore under password "p" and one under password "q"; an
\* encrypted file of a legacy JSON keystore under password "p"; a binary
\* file cut inside its entry
InitFiles ==
  {NoFile,
   RawText(encodeKeystoreData(MAP_a1)),
   JsonText(JsonMap(MAP_a1)),
   JsonText(JsonMap(MAP_proto1_b2)),
   WriteContent(MAP_a1, PW_p, 1, 1),
   WriteContent(MAP_a1, PW_q, 1, 1),
   JsonText(encrypt(JsonText(JsonMap(MAP_a1)), PW_p, 1, 1)),
   RawText(<<10, 6, 10, 1>>)}

\* the map handed to Keystore.toFile
ToFileMaps == {MAP_proto1_b2}

\* a start that read() treats as it treats another start of the model: without
\* a password every encrypted file fails alike, and with a password the file
\* cut short and the legacy file with "__proto__" are read as without one
Repeated(f, password) ==
  \/ /\ ~HasPassword(password)
     /\ f \in {WriteContent(MAP_a1, PW_q, 1, 1),
               JsonText(encrypt(JsonText(JsonMap(MAP_a1)), PW_p, 1, 1))}
  \/ /\ HasPassword(password)
     /\ f \in {RawText(<<10, 6, 10, 1>>), JsonText(JsonMap(MAP_proto1_b2))}

Init ==
  /\ fs \in {[p \in Paths |-> IF p = FilePath THEN f ELSE NoFile] :
               f \in InitFiles}
  /\ dirExists \in BOOLEAN
  /\ fs[FilePath] # NoFile => dirExists
  /\ ks \in {[i \in Inst |-> NewKeystore(password)] :
               password \in StorePasswords}
  /\ ~Repeated(fs[FilePath], ks[1].password)
  /\ tasks = [t \in Tasks |-> IdleTask]
  /\ running = 0
  /\ ops = 0
  /\ held = <<>>
  /\ heldOf = -1
  /\ fileBy = ExternalFile
  /\ CodecIdle
  /\ CryptoIdle
  /\ ProcIdle

IsFree(t) == tasks[t].pc \in {"idle", "done"}

\* the continuations after `await this.ensureLoaded()` are microtasks: they
\* all run before the next callback of the event loop, and the caller makes
\* its calls from such callbacks
NoMicrotask == \A t \in Tasks : tasks[t].pc # "resume"

\* the slot a new call takes
FreeSlot(t) ==
  /\ NoMicrotask
  /\ IsFree(t)
  /\ \A u \in Tasks : u < t => ~IsFree(u)

InFlight(i) == \E t \in Tasks : tasks[t].inst = i /\ ~IsFree(t)

\* the instances are taken into use in order
MayUse(i) == i = 1 \/ ks[1].trail.st # "new"

\* the slots when a call is made: the caller has taken the results of the
\* calls that had settled
Taken == [u \in Tasks |-> IF IsFree(u) THEN IdleTask ELSE tasks[u]]

NewTask(op, i, k, v) ==
  [IdleTask EXCEPT !.op = op, !.inst = i, !.key = k, !.val = v,
                   !.password = ks[i].password, !.prior = ks[i].trail]

\* the trail of instance i once a call op(k, v) is made on it
Called(i, op, k, v) ==
  IF ks[i].trail.st = "new" /\ op = "set"
    THEN [st |-> "setting", key |-> k, val |-> v, content |-> fs[FilePath]]
  ELSE IF ks[i].trail.st = "new" /\ op = "read"
    THEN [st |-> "reading", key |-> k, val |-> v, content |-> fs[FilePath]]
  ELSE OtherTrail

Settle(task, res) == [task EXCEPT !.pc = "done", !.res = res]

\* mutant: a read() that fails leaves the instance UNLOADED with an empty map
AfterRead_FailResets(t, task, o, trail, slots) ==
  LET i == task.inst
  IN IF o.st = "suspend" THEN
       /\ tasks' = [slots EXCEPT ![t] = [task EXCEPT !.pc = "derive",
                                                     !.env = o.env]]
       /\ ks' = [ks EXCEPT ![i].trail = trail]
       /\ UNCHANGED <<held, heldOf>>
     ELSE IF o.st = "error" THEN
       /\ tasks' = [slots EXCEPT ![t] = Settle(task, o.err)]
       /\ ks' = [ks EXCEPT ![i].trail = OtherTrail, ![i].data = <<>>,
                           ![i].loaded = FALSE]
       /\ UNCHANGED <<held, heldOf>>
     ELSE IF task.op = "read" THEN
       LET ret == IF o.st = "missing" THEN o.data ELSE ObjSpread(o.data)
       IN /\ tasks' = [slots EXCEPT ![t] = [Settle(task, Ok) EXCEPT
                                              !.map = ret]]
          /\ ks' = [ks EXCEPT ![i].data = o.data, ![i].loaded = TRUE,
                              ![i].trail = IF trail.st = "reading"
                                             THEN [trail EXCEPT !.st = "read"]
                                             ELSE trail]
          /\ held' = ret
          /\ heldOf' = IF o.st = "missing" THEN i ELSE 0
     ELSE
       /\ tasks' = [slots EXCEPT ![t] = [task EXCEPT !.pc = "resume"]]
       /\ ks' = [ks EXCEPT ![i].data = o.data, ![i].loaded = TRUE,
                           ![i].trail = trail]
       /\ held' = held
       /\ heldOf' = IF heldOf = i THEN 0 ELSE heldOf

\* what read() does with this, the caller's map and the call once the
\* outcome o of reading is known
AfterRead(t, task, o, trail, slots) ==
  LET i == task.inst
  IN IF o.st = "suspend" THEN
       /\ tasks' = [slots EXCEPT ![t] = [task EXCEPT !.pc = "derive",
                                                     !.env = o.env]]
       /\ ks' = [ks EXCEPT ![i].trail = trail]
       /\ UNCHANGED <<held, heldOf>>
     ELSE IF o.st = "error" THEN
       /\ tasks' = [slots EXCEPT ![t] = Settle(task, o.err)]
       /\ ks' = [ks EXCEPT ![i].trail = OtherTrail]
       /\ UNCHANGED <<held, heldOf>>
     ELSE IF task.op = "read" THEN
       LET ret == IF o.st = "missing" THEN o.data ELSE ObjSpread(o.data)
       IN /\ tasks' = [slots EXCEPT ![t] = [Settle(task, Ok) EXCEPT
                                              !.map = ret]]
          /\ ks' = [ks EXCEPT ![i].data = o.data, ![i].loaded = TRUE,
                              ![i].trail = IF trail.st = "reading"
                                             THEN [trail EXCEPT !.st = "read"]
                                             ELSE trail]
          /\ held' = ret
          /\ heldOf' = IF o.st = "missing" THEN i ELSE 0
     ELSE
       /\ tasks' = [slots EXCEPT ![t] = [task EXCEPT !.pc = "resume"]]
       /\ ks' = [ks EXCEPT ![i].data = o.data, ![i].loaded = TRUE,
                           ![i].trail = trail]
       /\ held' = held
       /\ heldOf' = IF heldOf = i THEN 0 ELSE heldOf

\* mutant: a read that finds no file at the path creates an empty one
CallLoading_CreatesFile(t, i, op, k, v) ==
  /\ running = 0
  /\ FreeSlot(t)
  /\ MayUse(i)
  /\ ops < MaxOps
  /\ ops' = ops + 1
  /\ IF op # "read" /\ ks[i].loaded
       THEN /\ tasks' = [Taken EXCEPT
                           ![t] = [NewTask(op, i, k, v) EXCEPT !.pc = "resume"]]
            /\ ks' = [ks EXCEPT ![i].trail = Called(i, op, k, v)]
            /\ fs' = fs
            /\ UNCHANGED <<held, heldOf>>
       ELSE /\ AfterRead(t, [NewTask(op, i, k, v) EXCEPT
                               !.didRead = TRUE, !.content = fs[FilePath],
                               !.src = fileBy],
                         ReadSync(fs[FilePath], ks[i].password),
                         Called(i, op, k, v), Taken)
            /\ fs' = IF fs[FilePath] = NoFile
                       THEN [fs EXCEPT ![FilePath] = RawText(<<>>)]
                       ELSE fs
  /\ UNCHANGED <<dirExists, running, fileBy>>
  /\ UNCHANGED <<codecVars, cryptoVars, procVars>>

\* mutant: ensureLoaded() calls read() also when the instance is LOADED
CallLoading_AlwaysLoads(t, i, op, k, v) ==
  /\ running = 0
  /\ FreeSlot(t)
  /\ MayUse(i)
  /\ ops < MaxOps
  /\ ops' = ops + 1
  /\ AfterRead(t, [NewTask(op, i, k, v) EXCEPT
                     !.didRead = TRUE, !.content = fs[FilePath],
                     !.src = fileBy],
               ReadSync(fs[FilePath], ks[i].password),
               Called(i, op, k, v), Taken)
  /\ UNCHANGED <<fs, dirExists, running, fileBy>>
  /\ UNCHANGED <<codecVars, cryptoVars, procVars>>

\* read(), or a method that starts with ensureLoaded(), up to its first await
CallLoading(t, i, op, k, v) ==
  /\ running = 0
  /\ FreeSlot(t)
  /\ MayUse(i)
  /\ ops < MaxOps
  /\ ops' = ops + 1
  /\ IF op # "read" /\ ks[i].loaded
       THEN /\ tasks' = [Taken EXCEPT
                           ![t] = [NewTask(op, i, k, v) EXCEPT !.pc = "resume"]]
            /\ ks' = [ks EXCEPT ![i].trail = Called(i, op, k, v)]
            /\ UNCHANGED <<held, heldOf>>
       ELSE AfterRead(t, [NewTask(op, i, k, v) EXCEPT
                            !.didRead = TRUE, !.content = fs[FilePath],
                            !.src = fileBy],
                      ReadSync(fs[FilePath], ks[i].password),
                      Called(i, op, k, v), Taken)
  /\ UNCHANGED <<fs, dirExists, running, fileBy>>
  /\ UNCHANGED <<codecVars, cryptoVars, procVars>>

CallRead(t, i) == CallLoading(t, i, "read", <<>>, <<>>)
CallGet(t, i, k) == CallLoading(t, i, "get", k, <<>>)
CallSet(t, i, k, v) == CallLoading(t, i, "set", k, v)
CallKeys(t, i) == CallLoading(t, i, "keys", <<>>, <<>>)
CallGetAll(t, i) == CallLoading(t, i, "getAll", <<>>, <<>>)

\* scrypt completes inside decrypt and read() runs to its end
Derived(t) ==
  /\ running = 0
  /\ NoMicrotask
  /\ tasks[t].pc = "derive"
  /\ AfterRead(t, tasks[t], ReadAfterDerive(tasks[t].env, tasks[t].password),
               ks[tasks[t].inst].trail, tasks)
  /\ UNCHANGED <<fs, dirExists, running, ops, fileBy>>
  /\ UNCHANGED <<codecVars, cryptoVars, procVars>>

\* the body of get, set, keys or getAll after `await this.ensureLoaded()`
Resume(t) ==
  LET task == tasks[t]
      i == task.inst
      data == ks[i].data
      assigned == ObjSet(data, task.key, task.val)
  IN /\ running = 0
     /\ task.pc = "resume"
     /\ tasks' = [tasks EXCEPT ![t] =
          IF task.op = "get"
            THEN [Settle(task, Ok) EXCEPT !.str = ObjGet(data, task.key)]
          ELSE IF task.op = "keys"
            THEN [Settle(task, Ok) EXCEPT !.list = ObjKeys(data)]
          ELSE IF task.op = "getAll"
            THEN [Settle(task, Ok) EXCEPT !.map = ObjSpread(data)]
          ELSE Settle(task, Ok)]
     /\ ks' = [ks EXCEPT
                 ![i].data = IF task.op = "set" THEN assigned ELSE @,
                 ![i].trail = IF task.op = "set" /\ @.st = "setting"
                                THEN [@ EXCEPT !.st = "set"]
                                ELSE OtherTrail]
     /\ held' = IF task.op = "getAll" THEN ObjSpread(data)
                ELSE IF task.op = "set" /\ heldOf = i THEN assigned
                ELSE held
     /\ heldOf' = IF task.op = "getAll" THEN 0 ELSE heldOf
     /\ UNCHANGED <<fs, dirExists, running, ops, fileBy>>
     /\ UNCHANGED <<codecVars, cryptoVars, procVars>>

\* write() up to the await of encrypt, or up to fs.writeFileSync when there
\* is no password; saltId and ivId are what crypto.randomBytes returns
StartWrite(t, task, this, saltId, ivId) ==
  /\ tasks' = [Taken EXCEPT ![t] =
       [task EXCEPT
          !.pc = IF HasPassword(this.password) THEN "wderive" ELSE "wopen",
          !.content = WriteContent(this.data, this.password, saltId, ivId),
          !.snap = this.data,
          !.madeDir = ~dirExists,
          !.old = fs[FilePath]]]
  /\ dirExists' = TRUE
  /\ running' = IF HasPassword(this.password) THEN 0 ELSE t

\* mutant: write() marks the instance LOADED
CallWrite_MarksLoaded(t, i, saltId, ivId) ==
  /\ running = 0
  /\ FreeSlot(t)
  /\ MayUse(i)
  /\ ops < MaxOps
  /\ ops' = ops + 1
  /\ StartWrite(t, NewTask("write", i, <<>>, <<>>), ks[i], saltId, ivId)
  /\ ks' = [ks EXCEPT ![i].trail = OtherTrail, ![i].loaded = TRUE]
  /\ UNCHANGED <<fs, held, heldOf, fileBy>>
  /\ UNCHANGED <<codecVars, cryptoVars, procVars>>

\* mutant: write() starts with a load of the file when the instance is
\* UNLOADED and the file can be read without waiting
CallWrite_LoadsFirst(t, i, saltId, ivId) ==
  LET o == ReadSync(fs[FilePath], ks[i].password)
      this == IF ~ks[i].loaded /\ o.st = "ok"
                THEN [ks[i] EXCEPT !.data = o.data, !.loaded = TRUE]
                ELSE ks[i]
  IN /\ running = 0
     /\ FreeSlot(t)
     /\ MayUse(i)
     /\ ops < MaxOps
     /\ ops' = ops + 1
     /\ StartWrite(t, NewTask("write", i, <<>>, <<>>), this, saltId, ivId)
     /\ ks' = [ks EXCEPT ![i] = [this EXCEPT !.trail = OtherTrail]]
     /\ UNCHANGED <<fs, held, heldOf, fileBy>>
     /\ UNCHANGED <<codecVars, cryptoVars, procVars>>

CallWrite(t, i, saltId, ivId) ==
  /\ running = 0
  /\ FreeSlot(t)
  /\ MayUse(i)
  /\ ops < MaxOps
  /\ ops' = ops + 1
  /\ StartWrite(t, NewTask("write", i, <<>>, <<>>), ks[i], saltId, ivId)
  /\ ks' = [ks EXCEPT ![i].trail = OtherTrail]
  /\ UNCHANGED <<fs, held, heldOf, fileBy>>
  /\ UNCHANGED <<codecVars, cryptoVars, procVars>>

\* Keystore.toFile(filePath, data, password): instance i becomes the new
\* Keystore the static method makes, with the password of instance i
CallToFile(t, i, data, saltId, ivId) ==
  LET this == [NewKeystore(ks[i].password) EXCEPT !.data = ObjSpread(data),
                                                  !.loaded = TRUE,
                                                  !.trail = OtherTrail]
  IN /\ running = 0
     /\ FreeSlot(t)
     /\ MayUse(i)
     /\ ~InFlight(i)
     /\ ops < MaxOps
     /\ ops' = ops + 1
     /\ ks' = [ks EXCEPT ![i] = this]
     /\ StartWrite(t, [NewTask("toFile", i, <<>>, <<>>) EXCEPT
                         !.prior = NewTrail],
                   this, saltId, ivId)
     /\ heldOf' = IF heldOf = i THEN 0 ELSE heldOf
     /\ UNCHANGED <<fs, held, fileBy>>
     /\ UNCHANGED <<codecVars, cryptoVars, procVars>>

\* fs.writeFileSync opens the temporary file, which empties it
WriteOpen(t) ==
  /\ \/ tasks[t].pc = "wderive" /\ running = 0 /\ NoMicrotask
     \/ tasks[t].pc = "wopen" /\ running = t
  /\ fs' = [fs EXCEPT ![TmpPath] = RawPartText(<<>>)]
  /\ tasks' = [tasks EXCEPT ![t].pc = "wchunk"]
  /\ running' = t
  /\ UNCHANGED <<dirExists, ks, ops, held, heldOf, fileBy>>
  /\ UNCHANGED <<codecVars, cryptoVars, procVars>>

\* the length of a text in the units fs.writeFileSync may stop after: the
\* bytes of a binary file; a JSON text is empty, partly (1) or fully (2)
\* written
ContentLen(c) == IF c.tk = "raw" THEN Len(c.seq) ELSE 2

Written(f) ==
  IF f.tk = "rawpart" THEN Len(f.seq) ELSE IF f.tk = "jsonpart" THEN 1 ELSE 0

\* the first n units of a text
Prefix(c, n) ==
  IF n = ContentLen(c) THEN c
  ELSE IF c.tk = "raw" THEN RawPartText(SubSeq(c.seq, 1, n))
  ELSE IF n = 1 THEN JsonPartText(c.json)
  ELSE RawPartText(<<>>)

\* the sizes the temporary file of call t may reach next: the whole text,
\* or half of it first
ChunkSizes(t) ==
  IF tasks[t].pc # "wchunk" THEN {}
  ELSE LET len == ContentLen(tasks[t].content)
       IN {len} \cup {n \in {len \div 2} : n > 0}

\* fs.writeFileSync brings the temporary file to n units
WriteChunk(t, n) ==
  LET c == tasks[t].content
      w == Written(fs[TmpPath])
  IN /\ tasks[t].pc = "wchunk"
     /\ running = t
     /\ n \in ChunkSizes(t)
     /\ n > w \/ ContentLen(c) = 0
     /\ fs' = [fs EXCEPT ![TmpPath] = Prefix(c, n)]
     /\ tasks' = [tasks EXCEPT
                    ![t].pc = IF n = ContentLen(c) THEN "wrename" ELSE @]
     /\ UNCHANGED <<dirExists, ks, running, ops, held, heldOf, fileBy>>
     /\ UNCHANGED <<codecVars, cryptoVars, procVars>>

\* fs.renameSync(tmpPath, this.filePath), and write() returns
WriteRename(t) ==
  LET task == tasks[t]
  IN /\ task.pc = "wrename"
     /\ running = t
     /\ fs' = RenameSync(fs, TmpPath, FilePath)
     /\ fileBy' = [by |-> "store", map |-> task.snap,
                   password |-> task.password,
                   fresh |-> (task.old = NoFile)]
     /\ tasks' = [tasks EXCEPT ![t] = Settle(task, Ok)]
     /\ running' = 0
     /\ UNCHANGED <<dirExists, ks, ops, held, heldOf>>
     /\ UNCHANGED <<codecVars, cryptoVars, procVars>>

\* the caller assigns to a property of the map it got from read() or
\* getAll(): map[k] = v
CallerMutate(k, v) ==
  /\ running = 0
  /\ heldOf >= 0
  /\ ops < MaxOps
  /\ ops' = ops + 1
  /\ held' = ObjSet(held, k, v)
  /\ ks' = IF heldOf \in Inst
             THEN [ks EXCEPT ![heldOf].data = ObjSet(held, k, v)]
             ELSE ks
  /\ UNCHANGED <<fs, dirExists, tasks, running, heldOf, fileBy>>
  /\ UNCHANGED <<codecVars, cryptoVars, procVars>>

\* the process dies while a write() is in flight; the next process starts
\* with new instances over the files as they are
Crash ==
  /\ \E t \in Tasks : tasks[t].pc \in {"wderive", "wopen", "wchunk", "wrename"}
  /\ tasks' = [t \in Tasks |-> IdleTask]
  /\ ks' = [i \in Inst |-> NewKeystore(ks[i].password)]
  /\ running' = 0
  /\ held' = <<>>
  /\ heldOf' = -1
  /\ UNCHANGED <<fs, dirExists, ops, fileBy>>
  /\ UNCHANGED <<codecVars, cryptoVars, procVars>>

Next ==
  \/ \E t \in Tasks, i \in Inst : CallRead(t, i)
  \/ \E t \in Tasks, i \in Inst, k \in GetKeys : CallGet(t, i, k)
  \/ \E t \in Tasks, i \in Inst, k \in StoreKeys, v \in StoreValues :
       CallSet(t, i, k, v)
  \/ \E t \in Tasks, i \in Inst : CallKeys(t, i)
  \/ \E t \in Tasks, i \in Inst : CallGetAll(t, i)
  \/ \E t \in Tasks, i \in Inst, r \in StoreRandom :
       CallWrite(t, i, r[1], r[2])
  \/ \E t \in Tasks, i \in Inst, data \in ToFileMaps, r \in StoreRandom :
       CallToFile(t, i, data, r[1], r[2])
  \/ \E t \in Tasks : Derived(t)
  \/ \E t \in Tasks : Resume(t)
  \/ \E t \in Tasks : WriteOpen(t)
  \/ \E t \in Tasks : \E n \in ChunkSizes(t) : WriteChunk(t, n)
  \/ \E t \in Tasks : WriteRename(t)
  \/ \E k \in StoreKeys, v \in StoreValues : CallerMutate(k, v)
  \/ Crash

Spec == Init /\ [][Next]_vars

-----------------------------------------------------------------------------
(* keystore.ts: read() and the loading methods on files of every format *)

\* texts that JSON.parse accepts and that are no object: [], null, true, 80,
\* 7 and "a"
JsonNonObjects ==
  {RawText(<<91, 93>>),
   RawText(<<110, 117, 108, 108>>),
   RawText(<<116, 114, 117, 101>>),
   RawText(<<56, 48>>),
   RawText(<<55>>),
   RawText(<<34, 97, 34>>)}

\* an encrypted file whose salt is 8 bytes long
ShortSaltFile ==
  JsonText([encrypt(RawText(Base64Encode(encodeKeystoreData(MAP_a1))),
                    PW_p, 1, 1) EXCEPT !.salt = Shortened(@, 8)])

\* the keystore path at the start of the reads: the files of InitFiles, the
\* JSON texts that are no object, {} spelled out, and the encrypted file
\* with a short salt
ReadFiles ==
  InitFiles \cup JsonNonObjects \cup {RawText(<<123, 125>>), ShortSaltFile}

\* what another program puts at the keystore path: a binary file cut inside
\* its entry, an encrypted file under the password "q", the encrypted file
\* with a short salt, and the binary keystore of {"b": "2"}
ReplacedFiles ==
  {RawText(<<10, 6, 10, 1>>),
   WriteContent(MAP_a1, PW_q, 1, 1),
   ShortSaltFile,
   RawText(encodeKeystoreData(<<<<STR_b, STR_2>>>>))}

InitRead ==
  /\ fs \in {[p \in Paths |-> IF p = FilePath THEN f ELSE NoFile] :
               f \in ReadFiles}
  /\ dirExists \in BOOLEAN
  /\ fs[FilePath] # NoFile => dirExists
  /\ ks \in {[i \in Inst |-> NewKeystore(password)] :
               password \in StorePasswords}
  /\ tasks = [t \in Tasks |-> IdleTask]
  /\ running = 0
  /\ ops = 0
  /\ held = <<>>
  /\ heldOf = -1
  /\ fileBy = ExternalFile
  /\ CodecIdle
  /\ CryptoIdle
  /\ ProcIdle

\* another program replaces the file at the keystore path, once
FileReplaced(f) ==
  /\ running = 0
  /\ fileBy = ExternalFile
  /\ fs[FilePath] # f
  /\ fs' = [fs EXCEPT ![FilePath] = f]
  /\ fileBy' = [ExternalFile EXCEPT !.by = "replaced"]
  /\ dirExists' = TRUE
  /\ UNCHANGED <<ks, tasks, running, ops, held, heldOf>>
  /\ UNCHANGED <<codecVars, cryptoVars, procVars>>

NextRead ==
  \/ \E t \in Tasks, i \in Inst : CallRead(t, i)
  \/ \E t \in Tasks, i \in Inst, k \in GetKeys : CallGet(t, i, k)
  \/ \E t \in Tasks, i \in Inst, k \in StoreKeys, v \in StoreValues :
       CallSet(t, i, k, v)
  \/ \E t \in Tasks, i \in Inst : CallKeys(t, i)
  \/ \E t \in Tasks, i \in Inst : CallGetAll(t, i)
  \/ \E t \in Tasks : Derived(t)
  \/ \E t \in Tasks : Resume(t)
  \/ \E f \in ReplacedFiles : FileReplaced(f)

SpecRead == InitRead /\ [][NextRead]_vars

-----------------------------------------------------------------------------
(* write() called by two processes on the same path.  Each process holds a *)
(* Keystore without password over the path and calls write() once; what    *)
(* the processes share is the directory (which inode each of the two       *)
(* names, the path and its '.tmp' sibling, stands for; 0 for none) and the *)
(* inodes with their bytes.  Every system call of fs.writeFileSync and     *)
(* fs.renameSync is a step of its own, and the steps of the two processes  *)
(* interleave freely.  Inode 1 is the file the path holds at the start.    *)

\* {"b": "2", "a": "1"}
MAP_b2_a1 == <<<<STR_b, STR_2>>, <<STR_a, STR_1>>>>

\* this.data of the Keystore of each process when it calls write()
ProcData(p) == IF p = 1 THEN MAP_a1 ELSE MAP_b2_a1

\* the bytes of the file the path holds at the start
OldBytes == encodeKeystoreData(<<<<STR_b, STR_1>>>>)

InitWriters ==
  /\ disk \in {[file |-> f, tmp |-> 0, inodes |-> <<OldBytes>>] : f \in {0, 1}}
  /\ procs = [p \in Procs |-> IdleProc]
  /\ CodecIdle
  /\ CryptoIdle
  /\ StoreIdle

ENOENT == [ok |-> FALSE, err |-> "ENOENT", msg |-> "no such file or directory"]

\* write() up to fs.writeFileSync: the directory exists, there is no
\* password, and protoBuf is what will be written
ProcCallWrite(p) ==
  /\ procs[p].pc = "idle"
  /\ procs' = [procs EXCEPT
                 ![p].pc = "open",
                 ![p].content = encodeKeystoreData(ProcData(p))]
  /\ UNCHANGED disk
  /\ UNCHANGED <<codecVars, cryptoVars, storeVars>>

\* fs.openSync(tmpPath, 'w') inside fs.writeFileSync: the file is created, or
\* the file that is there is emptied; an empty buffer needs no write
ProcOpen(p) ==
  LET fd == IF disk.tmp = 0 THEN Len(disk.inodes) + 1 ELSE disk.tmp
  IN /\ procs[p].pc = "open"
     /\ disk' = IF disk.tmp = 0
                  THEN [disk EXCEPT !.tmp = fd, !.inodes = Append(@, <<>>)]
                  ELSE [disk EXCEPT !.inodes[fd] = <<>>]
     /\ procs' = [procs EXCEPT
                    ![p].pc = IF procs[p].content = <<>> THEN "rename"
                              ELSE "write",
                    ![p].fd = fd]
     /\ UNCHANGED <<codecVars, cryptoVars, storeVars>>

\* the bytes of a file after `bytes` have been written at offset pos: a gap
\* before pos reads as zeros
WriteAt(old, pos, bytes) ==
  LET end == pos + Len(bytes)
      n == IF Len(old) > end THEN Len(old) ELSE end
  IN [i \in 1..n |-> IF i > pos /\ i <= end THEN bytes[i - pos]
                     ELSE IF i <= Len(old) THEN old[i]
                     ELSE 0]

\* the numbers of bytes the next fs.writeSync of process p may write: all
\* that is left, or only the bytes up to the next multiple of WriteUnit
WriteUnit == 4
ProcChunkSizes(p) ==
  IF procs[p].pc # "write" THEN {}
  ELSE LET left == Len(procs[p].content) - procs[p].pos
       IN {left}
            \cup {n \in {WriteUnit - (procs[p].pos % WriteUnit)} : n < left}

\* fs.writeSync(fd, data, offset, length, position) inside fs.writeFileSync
ProcWrite(p, n) ==
  LET me == procs[p]
  IN /\ me.pc = "write"
     /\ n \in ProcChunkSizes(p)
     /\ disk' = [disk EXCEPT
                   !.inodes[me.fd] =
                      WriteAt(@, me.pos, SubSeq(me.content, me.pos + 1,
                                                me.pos + n))]
     /\ procs' = [procs EXCEPT
                    ![p].pos = me.pos + n,
                    ![p].pc = IF me.pos + n = Len(me.content) THEN "rename"
                              ELSE "write"]
     /\ UNCHANGED <<codecVars, cryptoVars, storeVars>>

\* fs.closeSync(fd), then fs.renameSync(tmpPath, this.filePath), which throws
\* when there is no file at tmpPath; write() returns or throws
ProcRename(p) ==
  /\ procs[p].pc = "rename"
  /\ IF disk.tmp = 0
       THEN /\ disk' = disk
            /\ procs' = [procs EXCEPT ![p].pc = "done", ![p].res = ENOENT]
       ELSE /\ disk' = [disk EXCEPT !.file = disk.tmp, !.tmp = 0]
            /\ procs' = [procs EXCEPT ![p].pc = "done", ![p].res = Ok]
  /\ UNCHANGED <<codecVars, cryptoVars, storeVars>>

NextWriters ==
  \E p \in Procs :
    \/ ProcCallWrite(p)
    \/ ProcOpen(p)
    \/ \E n \in ProcChunkSizes(p) : ProcWrite(p, n)
    \/ ProcRename(p)

SpecWriters == InitWriters /\ [][NextWriters]_vars

-----------------------------------------------------------------------------
(* Claims about the Keystore class *)

\* a file that a write has not finished
Partial(f) == f # NoFile /\ f.tk \in {"rawpart", "jsonpart"}

\* what read() on a new Keystore with the given password makes of a file
\* content, the wait for scrypt included
Load(content, password) ==
  LET o == ReadSync(content, password)
  IN IF o.st = "suspend" THEN ReadAfterDerive(o.env, password) ELSE o

\* the map m with k mapped to v
Updated(m, k, v) == {p \in m : p[1] # k} \cup {<<k, v>>}

\* no password on both sides, or the same password
SamePasswordSetting(a, b) ==
  \/ ~HasPassword(a) /\ ~HasPassword(b)
  \/ a = b

\* C1: during write(), at every step and across a crash at any step, the
\* destination path never holds a partly written file, and its content changes
\* only in the one step in which a write() returns, to the complete new
\* content of that write: at every moment a reader of the destination finds
\* the complete old content or the complete new content.
C1_DestinationOldOrNew ==
  /\ [](~Partial(fs[FilePath]))
  /\ [][fs'[FilePath] # fs[FilePath] =>
          \E t \in Tasks : /\ tasks[t].pc = "wrename"
                           /\ tasks'[t].pc = "done"
                           /\ fs'[FilePath] = tasks[t].content]_vars

\* the process died while the temporary file was partly written, and the
\* destination still holds its complete old content
C1_Witness ==
  /\ Partial(fs[TmpPath])
  /\ Written(fs[TmpPath]) > 0
  /\ \A t \in Tasks : tasks[t].pc = "idle"
  /\ fs[FilePath] # NoFile
  /\ ~Partial(fs[FilePath])

\* C2 (as stated): when the path holds a file with map M, set(k, v) on a new
\* Keystore followed by write() leaves a file that decodes to M with k mapped
\* to v.
C2_SetThenWriteKeepsEntries ==
  \A t \in Tasks :
    LET task == tasks[t]
    IN (/\ task.op = "write"
        /\ task.pc = "done"
        /\ task.res.ok
        /\ task.prior.st = "set"
        /\ task.prior.content # NoFile
        /\ task.old = task.prior.content
        /\ fs[FilePath] = task.content)
       => LET m == Load(task.prior.content, task.password)
              f == Load(fs[FilePath], task.password)
          IN /\ f.st = "ok"
             /\ MapOf(f.data) =
                  Updated(MapOf(m.data), task.prior.key, task.prior.val)

\* C3 (as stated): the map returned by read() or getAll() is a copy: when the
\* caller assigns to a property of it, no Keystore changes.
C3_ReturnedMapIsCopy ==
  [][(\E k \in StoreKeys, v \in StoreValues : CallerMutate(k, v))
       => ks' = ks]_vars

\* C5 (as stated): when a Keystore wrote map M to a path that did not exist,
\* read() on a Keystore with the same password setting returns exactly M.
C5_WriteThenReadReturnsMap ==
  \A t \in Tasks :
    LET task == tasks[t]
    IN (/\ task.op = "read"
        /\ task.pc = "done"
        /\ task.src.by = "store"
        /\ task.src.fresh
        /\ SamePasswordSetting(task.src.password, task.password))
       => /\ task.res.ok
          /\ MapOf(task.map) = MapOf(task.src.map)

\* C6: in the step in which a write() returns, the destination holds the
\* content that write made, the temporary sibling does not exist and the
\* directory of the path exists.
C6_AfterWriteReturns ==
  [][\A t \in Tasks :
       (tasks[t].pc = "wrename" /\ tasks'[t].pc = "done")
         => /\ fs'[FilePath] = tasks[t].content
            /\ fs'[TmpPath] = NoFile
            /\ dirExists']_vars

\* a write() has returned that found the directory missing: the destination
\* holds what it wrote and there is no temporary sibling
C6_Witness ==
  \E t \in Tasks :
    /\ tasks[t].op = "write"
    /\ tasks[t].pc = "done"
    /\ tasks[t].res.ok
    /\ tasks[t].madeDir
    /\ dirExists
    /\ fs[FilePath] = tasks[t].content
    /\ fs[TmpPath] = NoFile

\* C8: a call that ran read() on an encrypted container fails with
\* MissingPasswordError when no password is configured and with
\* AuthenticationError when the tag does not verify under the password, and a
\* call that ran read() on a file that is no JSON object and that
\* decodeKeystoreData rejects fails with DecodeError; none of them returns a
\* map.
C8_ReadCommitsToBranch ==
  \A t \in Tasks :
    LET task == tasks[t]
        parsed == JsonParse(BufToString(task.content))
    IN (task.didRead /\ task.pc = "done" /\ task.content # NoFile)
       => /\ (isEncryptedPayload(parsed.obj) /\ ~HasPassword(task.password))
               => ~task.res.ok /\ task.res.err = "MissingPasswordError"
          /\ (/\ isEncryptedPayload(parsed.obj)
              /\ HasPassword(task.password)
              /\ ~decrypt(parsed.obj, task.password).ok
              /\ decrypt(parsed.obj, task.password).err = "AuthenticationError")
               => ~task.res.ok /\ task.res.err = "AuthenticationError"
          /\ (/\ ~(parsed.ok /\ parsed.cls = "object")
              /\ ~decodeKeystoreData(BufBytes(task.content)).ok)
               => ~task.res.ok /\ task.res.err = "DecodeError"

\* read() has failed on an encrypted container for want of a password
C8_Witness ==
  \E t \in Tasks :
    /\ tasks[t].op = "read"
    /\ tasks[t].pc = "done"
    /\ tasks[t].content # NoFile
    /\ isEncryptedPayload(JsonParse(BufToString(tasks[t].content)).obj)
    /\ ~HasPassword(tasks[t].password)
    /\ tasks[t].res.err = "MissingPasswordError"

\* the on-disk format of a file content: "B" a JSON text that is an encrypted
\* container, "C" any other JSON object, "A" bytes that are no JSON text and
\* that decodeKeystoreData accepts
FormatOf(f) ==
  LET parsed == JsonParse(BufToString(f))
  IN IF parsed.ok /\ isEncryptedPayload(parsed.obj) THEN "B"
     ELSE IF parsed.ok /\ parsed.cls = "object" THEN "C"
     ELSE IF ~parsed.ok /\ f.tk = "raw" /\ decodeKeystoreData(f.seq).ok
       THEN "A"
     ELSE "none"

\* the fields of a Format-C file, as a map
JsonFields(f) == MapOf(JsonParse(BufToString(f)).obj.m)

\* C11 (as stated): read() of a Format-C file returns exactly its fields; when
\* that read() is followed by one write() with no password, the file is Format
\* A, no longer parses as JSON, and a fresh read of it returns the same map.
C11_LegacyJsonUpgrade ==
  \A t \in Tasks :
    LET task == tasks[t]
    IN /\ (/\ task.op = "read"
           /\ task.pc = "done"
           /\ task.content # NoFile
           /\ FormatOf(task.content) = "C")
          => /\ task.res.ok
             /\ MapOf(task.map) = JsonFields(task.content)
       /\ (/\ task.op = "write"
           /\ task.pc = "done"
           /\ task.res.ok
           /\ ~HasPassword(task.password)
           /\ task.prior.st = "read"
           /\ task.prior.content # NoFile
           /\ FormatOf(task.prior.content) = "C"
           /\ task.old = task.prior.content
           /\ fs[FilePath] = task.content)
          => LET f == Load(fs[FilePath], task.password)
             IN /\ FormatOf(fs[FilePath]) = "A"
                /\ ~JsonParse(BufToString(fs[FilePath])).ok
                /\ f.st = "ok"
                /\ MapOf(f.data) = JsonFields(task.prior.content)

\* the calls that run write()
IsWrite(task) == task.op \in {"write", "toFile"} /\ task.pc # "idle"

\* C12: the temporary file a write() has written and is about to rename over
\* the destination is Format B exactly when the instance has a password, and
\* then the plaintext of the envelope is no JSON but the base64 text of
\* WireCodec bytes; it is Format A otherwise; whatever the instance read its
\* data from, the file is never Format C.
C12_WriteFormats ==
  \A t \in Tasks :
    LET task == tasks[t]
        pw == task.password
        f == fs[TmpPath]
    IN (IsWrite(task) /\ task.pc = "wrename") =>
         /\ FormatOf(f) = IF HasPassword(pw) THEN "B" ELSE "A"
         /\ HasPassword(pw) =>
              LET r == decrypt(f.json, pw)
              IN /\ r.ok
                 /\ ~JsonParse(r.value).ok
                 /\ decodeKeystoreData(PlainFromBase64(r.value)).ok

\* an instance with a password has read a Format-C file and written it back:
\* the file is now Format B
C12_Witness ==
  \E t \in Tasks :
    /\ tasks[t].op = "write"
    /\ tasks[t].pc = "done"
    /\ HasPassword(tasks[t].password)
    /\ tasks[t].prior.st = "read"
    /\ tasks[t].prior.content # NoFile
    /\ FormatOf(tasks[t].prior.content) = "C"
    /\ fs[FilePath] = tasks[t].content
    /\ FormatOf(fs[FilePath]) = "B"

\* C13: read() on a path where no file exists is no error: in the step of
\* the call it returns the empty map, the in-memory map of the instance is
\* empty and the instance is LOADED.
C13_ReadMissingFile ==
  [][\A t \in Tasks, i \in Inst :
       (fs[FilePath] = NoFile /\ CallRead(t, i))
         => /\ tasks'[t].pc = "done"
            /\ tasks'[t].res.ok
            /\ tasks'[t].map = <<>>
            /\ ks'[i].data = <<>>
            /\ ks'[i].loaded]_vars

\* read() has returned on an instance that held an entry while no file was at
\* the path: the instance is LOADED with the empty map
C13_Witness ==
  \E t \in Tasks :
    /\ tasks[t].op = "read"
    /\ tasks[t].pc = "done"
    /\ tasks[t].didRead
    /\ tasks[t].content = NoFile
    /\ tasks[t].res.ok
    /\ tasks[t].map = <<>>
    /\ tasks[t].prior.st = "set"
    /\ ks[tasks[t].inst].loaded
    /\ ks[tasks[t].inst].data = <<>>

\* a step of read, get, set, keys or getAll: the call up to its first await,
\* the completion of scrypt inside read(), or the body of the method after
\* ensureLoaded()
ReadingStep ==
  \/ \E t \in Tasks, i \in Inst :
       \/ CallRead(t, i)
       \/ CallKeys(t, i)
       \/ CallGetAll(t, i)
       \/ \E k \in GetKeys : CallGet(t, i, k)
       \/ \E k \in StoreKeys, v \in StoreValues : CallSet(t, i, k, v)
  \/ \E t \in Tasks : Derived(t) \/ Resume(t)

\* a step of fs.writeFileSync or fs.renameSync inside write()
WritingStep ==
  \E t \in Tasks :
    /\ IsWrite(tasks[t])
    /\ \/ WriteOpen(t)
       \/ \E n \in ChunkSizes(t) : WriteChunk(t, n)
       \/ WriteRename(t)

\* C14: no step of read, get, set, keys or getAll creates, changes or deletes
\* the keystore file or its '.tmp' sibling; whenever one of the two changes,
\* the step is one of write().
C14_OnlyWriteTouchesFiles ==
  [][fs' # fs => ~ReadingStep /\ WritingStep]_vars

\* set() has returned on an instance that found no file: the entry is in
\* memory, and there is still neither a file nor a temporary sibling
C14_Witness ==
  \E i \in Inst :
    /\ ks[i].trail.st = "set"
    /\ ks[i].trail.content = NoFile
    /\ HasOwn(ks[i].data, ks[i].trail.key)
    /\ fs[FilePath] = NoFile
    /\ fs[TmpPath] = NoFile

\* a step of a write() on instance i
WriteStepOf(i) ==
  \/ \E t \in Tasks, r \in StoreRandom : CallWrite(t, i, r[1], r[2])
  \/ \E t \in Tasks : tasks[t].inst = i /\ WritingStep

\* C15: the load flag of an instance never goes from LOADED back to UNLOADED
\* (the instances of the process that follows a crash are new ones); no step
\* of write() changes it; and an instance on which get, set, keys or getAll
\* has succeeded is LOADED.
C15_LoadFlagOneWay ==
  /\ [][~Crash =>
          \A i \in Inst :
            /\ ks[i].loaded => ks'[i].loaded
            /\ ks'[i].loaded # ks[i].loaded => ~WriteStepOf(i)]_vars
  /\ [](\A t \in Tasks :
          (/\ tasks[t].op \in {"get", "set", "keys", "getAll"}
           /\ tasks[t].pc = "done"
           /\ tasks[t].res.ok)
            => ks[tasks[t].inst].loaded)

\* a write() has returned on an instance that is still UNLOADED, and a get()
\* that had to load has returned on another, which is LOADED
C15_Witness ==
  \E t, u \in Tasks :
    /\ tasks[t].op = "write"
    /\ tasks[t].pc = "done"
    /\ ~ks[tasks[t].inst].loaded
    /\ tasks[u].op = "get"
    /\ tasks[u].pc = "done"
    /\ tasks[u].res.ok
    /\ tasks[u].didRead
    /\ ks[tasks[u].inst].loaded

\* C16 (as stated): when two processes run write() on the same path at the
\* same time, the write() of each returns without error, and at every moment
\* the path holds no file (when it held none at the start), the file it held
\* at the start, or the complete bytes of the write() of one of the two.
C16_ConcurrentWritersComplete ==
  /\ \A p \in Procs : procs[p].pc = "done" => procs[p].res.ok
  /\ \/ disk.file \in {0, 1}
     \/ \E p \in Procs : /\ procs[p].pc # "idle"
                         /\ disk.inodes[disk.file] = procs[p].content

\* the value a map gives for a key, undefined when the key is absent
Lookup(m, k) ==
  IF \E p \in m : p[1] = k THEN (CHOOSE p \in m : p[1] = k)[2] ELSE Undef

\* the in-memory map a call on an instance works on when the calls before it
\* on that instance have returned: the map of the file the instance loaded,
\* with the entry of the set() that went before
MapBefore(task) ==
  IF task.prior.st = "new"
    THEN MapOf(Load(task.content, task.password).data)
  ELSE IF task.prior.st = "read"
    THEN MapOf(Load(task.prior.content, task.password).data)
  ELSE Updated(MapOf(Load(task.prior.content, task.password).data),
               task.prior.key, task.prior.val)

\* no other call on the instance of call t is in the slots: the calls on
\* that instance were awaited one after another
Sequential(t) ==
  \A u \in Tasks :
    (u # t /\ tasks[u].pc # "idle") => tasks[u].inst # tasks[t].inst

\* C17 (as stated): for calls awaited one after another on one instance,
\* get(k) returns the value of the set(k, .) before it, else the value loaded
\* from the file, else undefined; keys() returns the keys of the in-memory
\* map, each once.
C17_SequentialView ==
  \A t \in Tasks :
    LET task == tasks[t]
    IN (/\ task.pc = "done"
        /\ task.res.ok
        /\ task.prior.st \in {"new", "read", "set"}
        /\ Sequential(t))
       => /\ task.op = "get" => task.str = Lookup(MapBefore(task), task.key)
          /\ task.op = "keys" =>
               /\ \A a, b \in 1..Len(task.list) :
                    a # b => task.list[a] # task.list[b]
               /\ {task.list[a] : a \in 1..Len(task.list)}
                    = {p[1] : p \in MapBefore(task)}

\* what read() makes of a file by the cascade of the formats: the encrypted
\* format when the text is JSON and isEncryptedPayload holds of it, else the
\* legacy JSON format when it is JSON and a plain object, else WireCodec binary
CascadeFormat(content) ==
  LET parsed == JsonParse(BufToString(content))
  IN IF parsed.ok /\ parsed.cls = "object" /\ parsed.obj.jt = "env"
          /\ parsed.obj.version = 1
       THEN "encrypted"
     ELSE IF parsed.ok /\ parsed.cls = "object" THEN "legacy"
     ELSE "binary"

\* the JSON texts that are an array, a number, a string, a boolean or null
IsJsonNonObject(content) ==
  LET parsed == JsonParse(BufToString(content))
  IN parsed.ok /\ parsed.cls # "object"

\* C24: a read() that found a file treats it by exactly one format, tried in
\* order: encrypted (MissingPasswordError without a password, else what
\* decrypting gives), else legacy JSON (the map is the parsed object), else
\* WireCodec binary (what decodeKeystoreData gives for the bytes of the file,
\* its DecodeError included); a file that is a JSON array, number, string,
\* boolean or null is decoded as WireCodec binary.
C24_FormatCascade ==
  \A t \in Tasks :
    LET task == tasks[t]
        format == CascadeFormat(task.content)
        bin == decodeKeystoreData(task.content.seq)
    IN (task.op = "read" /\ task.pc = "done" /\ task.content # NoFile)
       => /\ IsJsonNonObject(task.content) => format = "binary"
          /\ format = "encrypted" =>
               IF ~HasPassword(task.password)
                 THEN task.res = MissingPasswordError
                 ELSE LET r == ReadAfterDerive(
                                 JsonParse(BufToString(task.content)).obj,
                                 task.password)
                      IN IF r.st = "ok"
                           THEN task.res = Ok /\ task.map = r.data
                           ELSE task.res = r.err
          /\ format = "legacy" =>
               /\ task.res = Ok
               /\ task.map
                    = ParsedObject(JsonParse(BufToString(task.content)).obj)
          /\ format = "binary" =>
               /\ task.content.tk \in {"raw", "rawpart"}
               /\ IF bin.ok THEN task.res = Ok /\ task.map = bin.value
                            ELSE task.res = bin

\* a read() of the file "80", a JSON number, has returned the empty map that
\* the binary decoder makes of it
C24_Witness ==
  \E t \in Tasks :
    /\ tasks[t].op = "read"
    /\ tasks[t].pc = "done"
    /\ tasks[t].content = RawText(<<56, 48>>)
    /\ tasks[t].res = Ok
    /\ tasks[t].map = <<>>
    /\ ks[tasks[t].inst].loaded

\* a read() of the file "[]" has thrown the DecodeError of the binary decoder
C24_WitnessArray ==
  \E t \in Tasks :
    /\ tasks[t].op = "read"
    /\ tasks[t].pc = "done"
    /\ tasks[t].content = RawText(<<91, 93>>)
    /\ tasks[t].res.err = "DecodeError"
    /\ ~ks[tasks[t].inst].loaded

\* the texts write() makes of the empty map under a password
EmptyKeystores(password) ==
  {WriteContent(<<>>, password, r[1], r[2]) : r \in StoreRandom}

\* C25: write() never loads. A write() on an instance that is UNLOADED
\* reads no file and serializes the empty map; when it has returned, the path
\* holds the empty keystore in place of the file that was there; and the
\* instance on which write() is the only call made is still UNLOADED, with an
\* empty map.
C25_WriteNeverLoads ==
  \A t \in Tasks :
    LET task == tasks[t]
        i == task.inst
    IN (task.op = "write" /\ task.pc # "idle")
       => /\ ~task.didRead
          /\ (task.prior.st = "new" /\ ops = 1) =>
               ~ks[i].loaded /\ ks[i].data = <<>>
          /\ ~ks[i].loaded =>
               /\ task.snap = <<>>
               /\ task.content \in EmptyKeystores(task.password)
               /\ (/\ task.pc = "done"
                   /\ \A u \in Tasks :
                        u # t => ~(IsWrite(tasks[u]) /\ tasks[u].pc = "done"))
                  => fs[FilePath] = task.content

\* a write() on a new instance without password has returned: the file that
\* held {"a": "1"} is the empty binary keystore and the instance is UNLOADED
C25_Witness ==
  \E t \in Tasks :
    /\ tasks[t].op = "write"
    /\ tasks[t].pc = "done"
    /\ tasks[t].prior.st = "new"
    /\ tasks[t].old = RawText(encodeKeystoreData(MAP_a1))
    /\ fs[FilePath] = RawText(<<>>)
    /\ ~ks[tasks[t].inst].loaded
    /\ ks[tasks[t].inst].data = <<>>
    /\ ops = 1

\* the same under the password "p", over an encrypted file
C25_WitnessEncrypted ==
  \E t \in Tasks :
    /\ tasks[t].op = "write"
    /\ tasks[t].pc = "done"
    /\ tasks[t].prior.st = "new"
    /\ tasks[t].old = WriteContent(MAP_a1, PW_p, 1, 1)
    /\ fs[FilePath] = WriteContent(<<>>, PW_p, 2, 2)
    /\ ~ks[tasks[t].inst].loaded
    /\ ops = 1

\* C26 (as stated): when two set() calls were started on the same UNLOADED
\* instance without awaiting the first, each waiting for the key derivation
\* of its own load of the encrypted file, then once both have returned the
\* in-memory map holds what both have set.
C26_OverlappingLoadsKeepBoth ==
  \A t, u \in Tasks :
    (/\ t # u
     /\ tasks[t].inst = tasks[u].inst
     /\ tasks[t].op = "set" /\ tasks[u].op = "set"
     /\ tasks[t].pc = "done" /\ tasks[u].pc = "done"
     /\ tasks[t].res.ok /\ tasks[u].res.ok
     /\ tasks[t].didRead /\ tasks[u].didRead
     /\ tasks[t].env # <<>> /\ tasks[u].env # <<>>
     /\ tasks[t].key # tasks[u].key)
    => /\ ObjGet(ks[tasks[t].inst].data, tasks[t].key) = tasks[t].val
       /\ ObjGet(ks[tasks[t].inst].data, tasks[u].key) = tasks[u].val

\* C27 (as stated): when the inner loop over one entry ends, the read offset
\* is the end of the entry: no byte behind the declared length of the
\* sub-message was consumed, whatever sub-fields were skipped.
C27_EntryStaysInBounds ==
  dec.pc = "inner" => dec.offset <= dec.end

\* C30: decodeKeystoreData ends on every buffer, with the map or the error
\* that the decoder gives; each iteration of the inner loop ends at a larger
\* offset than it began with, and so does each iteration of the outer loop.
C30_DecodeTerminates ==
  /\ [][/\ (dec.pc = "inner" /\ dec'.pc = "inner") =>
              dec'.offset > dec.offset
        /\ (dec.pc = "outer" /\ dec'.pc = "inner") =>
              dec'.offset > dec.offset
        /\ (dec.pc \in {"outer", "inner"} /\ dec'.pc = "outer") =>
              dec'.offset > dec.from /\ dec'.from = dec'.offset
        /\ dec'.pc = "done" =>
              dec'.res = decodeKeystoreData(dec.buf)]_vars
  /\ <>(dec.pc = "done")

\* decodeKeystoreData has returned {"a": "1"} after two iterations of its
\* inner loop for the two strings and three more for a 64-bit, a varint and
\* a 32-bit sub-field that were skipped
C30_Witness ==
  /\ dec.pc = "done"
  /\ dec.buf = <<10, 22, 9, 1, 2, 3, 4, 5, 6, 7, 8, 8, 5, 13, 1, 2, 3, 4,
                 10, 1, 97, 18, 1, 49>>
  /\ dec.offset = Len(dec.buf)
  /\ dec.res = [ok |-> TRUE, value |-> MAP_a1]

\* the errors read() ends with
ReadErrors ==
  {"MissingPasswordError", "AuthenticationError", "FormatError", "DecodeError"}

\* C28: the step in which a read() fails, called by the program or by
\* ensureLoaded, leaves the map and the load flag of the instance as they
\* were, and so does the step in which a read() starts to wait for the key
\* derivation: an UNLOADED instance stays UNLOADED and a LOADED one keeps its
\* map.
C28_FailedReadChangesNothing ==
  [][\A t \in Tasks :
       (/\ tasks'[t] # tasks[t]
        /\ tasks'[t].didRead
        /\ \/ tasks'[t].pc = "done" /\ ~tasks'[t].res.ok
           \/ tasks'[t].pc = "derive")
       => /\ ks'[tasks'[t].inst].data = ks[tasks'[t].inst].data
          /\ ks'[tasks'[t].inst].loaded = ks[tasks'[t].inst].loaded
          /\ tasks'[t].pc = "done" => tasks'[t].res.err \in ReadErrors]_vars

\* a read() on a LOADED instance has failed with a DecodeError on the cut
\* file that replaced the keystore, and the instance still holds {"a": "1"}
C28_Witness ==
  \E t \in Tasks :
    /\ tasks[t].op = "read"
    /\ tasks[t].pc = "done"
    /\ tasks[t].res.err = "DecodeError"
    /\ tasks[t].content = RawText(<<10, 6, 10, 1>>)
    /\ ks[tasks[t].inst].loaded
    /\ ks[tasks[t].inst].data = MAP_a1

\* a read() on a LOADED instance has failed with an AuthenticationError
C28_WitnessAuthentication ==
  \E t \in Tasks :
    /\ tasks[t].op = "read"
    /\ tasks[t].pc = "done"
    /\ tasks[t].res.err = "AuthenticationError"
    /\ ks[tasks[t].inst].loaded
    /\ ks[tasks[t].inst].data = MAP_a1

\* a read() on an UNLOADED instance has failed with a FormatError, and one
\* with a MissingPasswordError
C28_WitnessFormat ==
  \E t \in Tasks :
    /\ tasks[t].op = "read"
    /\ tasks[t].pc = "done"
    /\ tasks[t].res.err = "FormatError"
    /\ ~ks[tasks[t].inst].loaded

C28_WitnessMissingPassword ==
  \E t \in Tasks :
    /\ tasks[t].op = "read"
    /\ tasks[t].pc = "done"
    /\ tasks[t].res.err = "MissingPasswordError"
    /\ ~ks[tasks[t].inst].loaded

\* C29: the step in which a read() returns leaves the instance LOADED with
\* the map of the file it read, whatever the map was before, so that what
\* set() had put into the map of a LOADED instance is gone; get, set, keys and
\* getAll called on a LOADED instance read no file: they work on the map in
\* memory, also when the file at the path has changed.
C29_ReadReplacesLoadedMap ==
  [][\A t \in Tasks :
       LET old == tasks[t]
           new == tasks'[t]
           i == new.inst
       IN /\ (new # old /\ new.op = "read" /\ new.pc = "done" /\ new.res.ok)
             => /\ ks'[i].loaded
                /\ ks'[i].data = Load(new.content, new.password).data
          /\ (/\ new # old
              /\ ops' = ops + 1
              /\ new.op \in {"get", "set", "keys", "getAll"}
              /\ ks[i].loaded)
             => /\ ~new.didRead
                /\ new.pc = "resume"
                /\ ks'[i].data = ks[i].data
          /\ (old.pc = "resume" /\ ~old.didRead /\ new.pc = "done")
             => /\ new.op = "get" => new.str = ObjGet(ks[i].data, new.key)
                /\ new.op = "keys" => new.list = ObjKeys(ks[i].data)
                /\ new.op = "getAll" => new.map = ks[i].data
                /\ ks'[i].data = IF new.op = "set"
                                   THEN ObjSet(ks[i].data, new.key, new.val)
                                   ELSE ks[i].data]_vars

\* a read() has returned on an instance that had loaded {"a": "1"} and on
\* which set("b", "2") had returned: the map is {"a": "1"} again
C29_Witness ==
  \E t \in Tasks :
    /\ tasks[t].op = "read"
    /\ tasks[t].pc = "done"
    /\ tasks[t].res.ok
    /\ tasks[t].prior.st = "set"
    /\ tasks[t].prior.key = STR_b
    /\ tasks[t].content = RawText(encodeKeystoreData(MAP_a1))
    /\ ks[tasks[t].inst].data = MAP_a1

\* a get("a") on a LOADED instance has returned "1" from the map in memory
\* after the file was replaced by the keystore of {"b": "2"}
C29_WitnessNoReread ==
  \E t \in Tasks :
    /\ tasks[t].op = "get"
    /\ tasks[t].pc = "done"
    /\ ~tasks[t].didRead
    /\ tasks[t].key = STR_a
    /\ tasks[t].str = STR_1
    /\ fs[FilePath] = RawText(encodeKeystoreData(<<<<STR_b, STR_2>>>>))

=============================================================================
